---- MODULE Spec2Model ----
(***************************************************************************)
(* A model of the audio mixing core: the SoundSource playback state        *)
(* machine and its resampling renderer (src/src/source.rs), the context    *)
(* render pass and control API (src/src/lib.rs, src/src/dissection/        *)
(* engine.rs) and the engine/context locking protocol.                     *)
(*                                                                         *)
(* Numbers.  Positions, pitch, the resampling multiplier and steps are     *)
(* f64 in the source.  The model draws them from multiples of 1/FP and     *)
(* stores them multiplied by FP, so every sum and product the renderer     *)
(* forms is exact both in f32 and in f64.  Buffer samples are multiples    *)
(* of 8, so that an interpolation with weight 1/2 is an integer too.       *)
(***************************************************************************)
EXTENDS Integers, Sequences, FiniteSets, TLC

\* ------------------------------------------------------------------ bounds
MaxFrames == 3
MaxAmount == 3
MaxRun == 5
MaxSlots == 2
MaxGeneration == 2
BlockLen == 2
MaxThreads == 1
MaxContexts == 2
MaxSamples == 4
MaxBytes == 5
\* The largest argument of set_playback_time, in ticks.
MaxTime == 8

\* Fixed-point denominator of the f64 fields (buf_read_pos, pitch, ...).
FP == 2

VARIABLES
  src,        \* the SoundSource under test (source-level specifications)
  call,       \* the render call in flight on src: pc, amount, count, iter
  lastOp,     \* history: name of the last completed operation on src
  lastFrom,   \* history: src.status before the last operation
  run,        \* history: frames of the consecutive step-1 renders so far
  runStart,   \* history: buf_read_pos at which the run began
  made,       \* the last call of a Buffer constructor: arguments and result
  heap,       \* the capacity of src.frame_samples and the heap allocations of
              \* the last render of src (followed in the heap specification)
  ctx,        \* the SoundContextState: sources, bus_graph, paused
  output,     \* the output block of the last render pass, times its length
  freed,      \* history: a handle freed while valid, by remove_source or, in the
              \* life of a source, by the retain of the last render pass
  lastHandle, \* history: the handle the last add_source returned
  ended,      \* history: the slots whose source a render has stopped at the
              \* end of its buffer
  reserved,   \* the outstanding take_reserve: its ticket and the source taken
  mutex,      \* the engine's and the context's Mutex: holder, poisoned
  thread,     \* the audio callback and the control threads: pc, guards held
  contexts,   \* SoundEngineState.contexts: how often the context is registered
  lin,        \* history: the context and the output after the operations of
              \* the guards acquired so far, applied in the order of acquisition
  inverted    \* history: a control thread asked for a mutex under a context guard

srcVars == <<src, call, lastFrom, run, runStart, made, heap>>
engVars == <<mutex, thread, contexts, lin, inverted>>
ctxVars == <<ctx, output, freed, lastHandle, ended, reserved>>
vars == <<srcVars, lastOp, ctxVars, engVars>>

\* ------------------------------------------------------------------ numbers
Min(a, b) == IF a < b THEN a ELSE b
Max(a, b) == IF a > b THEN a ELSE b
Abs(x) == IF x < 0 THEN -x ELSE x
\* f64::floor and the fractional part, on values stored times FP.
Floor(x) == x \div FP
Fract(x) == x - FP * Floor(x)

\* ------------------------------------------------------------------ Buffer
\* A buffer of n frames with c channels; sample j (1-based) is 8*j, so that
\* halving a sample (an interpolation, an attenuation by 1/2) is exact.
MkBuffer(c, n) == [channel_count |-> c, samples |-> [j \in 1..(c * n) |-> 8 * j]]
NoBuffer == [channel_count |-> 0, samples |-> <<>>]
Buffers == {MkBuffer(c, n) : c \in {1, 2}, n \in 1..MaxFrames} \cup {MkBuffer(1, 0)}
BufferLen(b) == Len(b.samples) \div b.channel_count
\* The stereo pair of frame i (0-based): mono duplicated, stereo interleaved.
Frame(b, i) ==
  IF b.channel_count = 2
    THEN <<b.samples[2 * i + 1], b.samples[2 * i + 2]>>
    ELSE <<b.samples[i + 1], b.samples[i + 1]>>
Silence == <<0, 0>>

\* Buffer::new of buffer.rs on DataSource::Raw.  "||" evaluates its right
\* operand only when the left one is false; "%" panics on a zero divisor.
Ok(b) == [outcome |-> "Ok", buffer |-> b]
Err == [outcome |-> "Err", buffer |-> NoBuffer]
Panic == [outcome |-> "panic", buffer |-> NoBuffer]

\* A Buffer::new that evaluates the remainder before the channel count.
Buffer_new_remainder_first(channel_count, samples) ==
  IF channel_count = 0 THEN Panic
  ELSE IF Len(samples) % channel_count # 0 \/ channel_count < 1 \/ channel_count > 2
    THEN Err
  ELSE Ok([samples |-> samples,
           channel_count |-> channel_count,
           channel_duration_in_samples |-> Len(samples) \div channel_count])

Buffer_new(channel_count, samples) ==
  IF channel_count < 1 \/ channel_count > 2
    THEN Err
  ELSE IF channel_count = 0
    THEN Panic
  ELSE IF Len(samples) % channel_count # 0
    THEN Err
  ELSE Ok([samples |-> samples,
           channel_count |-> channel_count,
           channel_duration_in_samples |-> Len(samples) \div channel_count])

\* Buffer::new(samples, is_mono) of dissection/buffer.rs: it cannot fail; a
\* mono vector of odd length gets its last sample once more.
dissection_Buffer_new(samples, is_mono) ==
  [is_mono |-> is_mono,
   samples |-> IF Len(samples) % 2 # 0 /\ is_mono
                 THEN Append(samples, samples[Len(samples)])
                 ELSE samples]

\* channel_count: the field of buffer.rs, the method of dissection/buffer.rs.
channel_count(b) ==
  IF "is_mono" \in DOMAIN b THEN (IF b.is_mono THEN 1 ELSE 2) ELSE b.channel_count

\* f32::from_le_bytes: the sample is held as its bit pattern.
from_le_bytes(chunk) == chunk[1] + 256 * chunk[2] + 65536 * chunk[3] + 16777216 * chunk[4]

\* Buffer::read_pcm: read_ok tells whether read_to_end succeeded.
read_pcm(bytes, read_ok, is_mono) ==
  IF ~ read_ok THEN Err
  ELSE IF Len(bytes) % 4 # 0 THEN Err
  ELSE Ok(dissection_Buffer_new(
            [k \in 1..(Len(bytes) \div 4) |-> from_le_bytes(SubSeq(bytes, 4 * k - 3, 4 * k))],
            is_mono))

\* Vec::new() of frame_samples: no capacity; no render yet.
NoHeap == [capacity |-> 0, allocations |-> 0, amount |-> 0, renders |-> 0]
\* No constructor has been called.
NoCall == [op |-> "none", channel_count |-> 0, is_mono |-> FALSE,
           samples |-> <<>>, bytes |-> <<>>, result |-> Err]

\* ------------------------------------------------------------------ SoundSource
Statuses == {"Stopped", "Playing", "Paused"}
PrimaryBus == "Primary"
\* Arguments of set_pitch, times FP: -1.5, 0, 0.5 and 1.
PitchArgs == {-3, 0, 1, 2}
\* resampling_multiplier, times FP: 1.0 (rates match) and 2.0.
Multipliers == {FP, 2 * FP}
\* Option<T>: None is the empty sequence, Some(v) the sequence of v alone.
None == <<>>
Some(v) == <<v>>

\* A freshly built source: Stopped, rewound, pitch 1, gain 1, not looping,
\* routed to the primary bus, no last gains yet.
NewSource(b, m) ==
  [ buffer |-> b,
    buf_read_pos |-> 0,
    playback_pos |-> 0,
    panning |-> 0,
    pitch |-> FP,
    gain |-> 1,
    looping |-> FALSE,
    spatial_blend |-> 0,
    resampling_multiplier |-> m,
    status |-> "Stopped",
    bus |-> PrimaryBus,
    play_once |-> FALSE,
    last_left_gain |-> None,
    last_right_gain |-> None,
    frame_samples |-> <<>>,
    prev_buffer_sample |-> Silence ]

\* A pause() that resumes a paused source, and a stop() that leaves the
\* playback position where it was.
pause_toggles(s) == [s EXCEPT !.status = IF @ = "Paused" THEN "Playing" ELSE "Paused"]
stop_keeps_playback_pos(s) == [s EXCEPT !.status = "Stopped", !.buf_read_pos = 0]

play(s) == [s EXCEPT !.status = "Playing"]
pause(s) == [s EXCEPT !.status = "Paused"]
stop(s) == [s EXCEPT !.status = "Stopped", !.buf_read_pos = 0, !.playback_pos = 0]
\* A set_pitch that keeps the sign of its argument.
set_pitch_keeps_sign(s, p) == [s EXCEPT !.pitch = p]
set_pitch(s, p) == [s EXCEPT !.pitch = Abs(p)]
set_looping(s, l) == [s EXCEPT !.looping = l]
set_gain(s, g) == [s EXCEPT !.gain = g]
set_play_once(s, o) == [s EXCEPT !.play_once = o]
set_bus(s, name) == [s EXCEPT !.bus = name]

\* Durations are counted in ticks of a quarter of a second.
TicksPerSecond == 4
\* Buffer::duration, in seconds times FP: the division by a sample rate of
\* zero panics.  as_secs_f64() * sample_rate, in frames times FP.
duration(b) == (BufferLen(b) * FP) \div b.sample_rate
FramesAt(time, b) == (time * b.sample_rate * FP) \div TicksPerSecond
\* f64::clamp.
Clamp(x, lo, hi) == IF x < lo THEN lo ELSE IF x > hi THEN hi ELSE x

\* set_playback_time: the position in frames, clamped to the duration in
\* seconds, then the assertion that it is inside the samples.
set_playback_time(s, time) ==
  IF s.buffer = NoBuffer THEN [src |-> s, outcome |-> "ok"]
  ELSE IF s.buffer.sample_rate = 0 THEN [src |-> s, outcome |-> "panic"]
  ELSE [src |-> [s EXCEPT
                   !.playback_pos = Clamp(FramesAt(time, s.buffer), 0, duration(s.buffer)),
                   !.buf_read_pos = Clamp(FramesAt(time, s.buffer), 0, duration(s.buffer))],
        outcome |-> IF Clamp(FramesAt(time, s.buffer), 0, duration(s.buffer))
                         * s.buffer.channel_count
                       < Len(s.buffer.samples) * FP
                      THEN "ok" ELSE "panic"]
\* playback_time: playback_pos / sample_rate, in ticks; zero without buffer.
playback_time(s) ==
  IF s.buffer = NoBuffer THEN 0
  ELSE (s.playback_pos * TicksPerSecond) \div (FP * s.buffer.sample_rate)

\* step = pitch * resampling_multiplier (times FP).
Step(s) == (s.pitch * s.resampling_multiplier) \div FP

\* a * (1 - w) + c * w for one channel, w times FP.
Mix1(a, c, w) == (a * (FP - w) + c * w) \div FP
Interpolate(f, g, w) == <<Mix1(f[1], g[1], w), Mix1(f[2], g[2], w)>>

\* The loop "while self.buf_read_pos < 0.0" of the resampler.  With step 0 it
\* never leaves a negative position: outcome "spin".
RECURSIVE NegativeLoop(_, _, _, _)
NegativeLoop(s, b, step, rendered) ==
  IF s.buf_read_pos >= 0
    THEN [src |-> s, rendered |-> rendered, outcome |-> "ok"]
  ELSE IF step = 0
    THEN [src |-> s, rendered |-> rendered, outcome |-> "spin"]
  ELSE NegativeLoop(
         [s EXCEPT !.frame_samples =
                      Append(@, Interpolate(s.prev_buffer_sample, Frame(b, 0),
                                            Fract(s.buf_read_pos))),
                   !.buf_read_pos = @ + step,
                   !.playback_pos = @ + step],
         b, step, rendered + 1)

\* A hot loop that emits the frame at idx without interpolation.
RECURSIVE ResampleLoopNearest(_, _, _, _, _, _, _)
ResampleLoopNearest(b, base, rel, step, rendered, amount, out) ==
  IF rendered >= amount \/ Floor(rel) + base >= BufferLen(b) - 1
    THEN [rel |-> rel, rendered |-> rendered, out |-> out]
    ELSE ResampleLoopNearest(b, base, rel + step, step, rendered + 1, amount,
                             Append(out, Frame(b, Floor(rel) + base)))
\* The hot loop: emits while rendered < amount and idx < buffer_last.
RECURSIVE ResampleLoop(_, _, _, _, _, _, _)
ResampleLoop(b, base, rel, step, rendered, amount, out) ==
  LET idx == Floor(rel) + base
      w == Fract(rel)
  IN IF rendered >= amount \/ idx >= BufferLen(b) - 1
       THEN [rel |-> rel, rendered |-> rendered, out |-> out]
       ELSE ResampleLoop(b, base, rel + step, step, rendered + 1, amount,
                         Append(out, Interpolate(Frame(b, idx), Frame(b, idx + 1), w)))

\* The end of render_until_block_end_resample: h is the result of the hot
\* loop that began at the relative position start of the source s1.
ResampleEnd(s1, start, h) ==
  [src |-> [s1 EXCEPT !.frame_samples = h.out,
                      !.buf_read_pos = @ + (h.rel - start),
                      !.playback_pos = @ + (h.rel - start)],
   rendered |-> h.rendered,
   outcome |-> "ok"]

\* The hot loop, entered with the result n of the loop over negative
\* positions: base is the integer part of buf_read_pos, start its fraction.
ResampleHot(n, b, amount, step, base) ==
  IF n.outcome # "ok"
    THEN n
    ELSE ResampleEnd(n.src, n.src.buf_read_pos - FP * base,
                     ResampleLoop(b, base, n.src.buf_read_pos - FP * base, step,
                                  n.rendered, amount, n.src.frame_samples))

ResampleFrom(n, b, amount, step) ==
  ResampleHot(n, b, amount, step, IF n.outcome = "ok" THEN Floor(n.src.buf_read_pos) ELSE 0)

render_until_block_end_resample(s, b, amount, step) ==
  ResampleFrom(NegativeLoop(s, b, step, 0), b, amount, step)

\* A copy that repeats the frame at from.
CopyRepeatsFirst(b, from, n) == [k \in 1..n |-> Frame(b, from)]
\* Frames from, from+1, ..., from+n-1 of the buffer.
Copy(b, from, n) == [k \in 1..n |-> Frame(b, from + k - 1)]

\* checks: the build traps integer overflow (debug) or wraps (release).
\* "buffer_len - from" underflows when from > buffer_len: a panic with checks;
\* wrapped, min() yields amount and the first index is out of bounds, a panic
\* too unless amount = 0.  "amount -= 1" underflows at amount = 0.
\* The fast path at step 1.0, for the source s1 and the amount amount1 left
\* after the branch on a negative position.
CopyFrames(s1, b, amount1, checks, from, buffer_len, rendered) ==
  IF amount1 < 0
    THEN [src |-> s1, rendered |-> 0, outcome |-> IF checks THEN "panic" ELSE "wrapped"]
  ELSE IF from > buffer_len
    THEN [src |-> s1, rendered |-> 0,
          outcome |-> IF checks \/ amount1 > 0 THEN "panic" ELSE "ok"]
  ELSE [src |-> [s1 EXCEPT !.frame_samples = @ \o Copy(b, from, rendered),
                           !.buf_read_pos = @ + FP * rendered,
                           !.playback_pos = @ + FP * rendered],
        rendered |-> rendered,
        outcome |-> "ok"]

FastPath(s1, b, amount1, checks) ==
  CopyFrames(s1, b, amount1, checks, Floor(s1.buf_read_pos), BufferLen(b),
             Min(BufferLen(b) - Floor(s1.buf_read_pos), amount1))

render_until_block_end(s, b, amount, checks) ==
  IF Step(s) # FP
    THEN render_until_block_end_resample(s, b, amount, Step(s))
  ELSE IF s.buf_read_pos < 0
    THEN FastPath([s EXCEPT !.frame_samples = Append(@, s.prev_buffer_sample),
                            !.buf_read_pos = 0], b, amount - 1, checks)
  ELSE FastPath(s, b, amount, checks)

\* A rewind to the second frame of the buffer.
RewindToSecondFrame(s) == [s EXCEPT !.buf_read_pos = FP, !.playback_pos = FP]
\* "self.buf_read_pos = 0.0; self.playback_pos = 0.0" at the end of the buffer.
Rewind(s) == [s EXCEPT !.buf_read_pos = 0, !.playback_pos = 0]

\* One iteration of the loop of render_playing.  next: "loop" (iterate again),
\* "done" (break or return), or the outcome that ended the call abnormally.
\* The rest of an iteration, once render_until_block_end returned r.
AfterBlockEnd(r, amount, c) ==
  IF r.outcome # "ok"
    THEN [src |-> r.src, count |-> c, next |-> r.outcome]
  ELSE IF c = amount
    THEN [src |-> r.src, count |-> c, next |-> "done"]
  ELSE IF ~ r.src.looping
    THEN [src |-> [Rewind(r.src) EXCEPT !.status = "Stopped"], count |-> c, next |-> "done"]
  ELSE [src |-> Rewind(r.src), count |-> c, next |-> "loop"]

AddRendered(r, amount, count) == AfterBlockEnd(r, amount, count + r.rendered)

render_playing(s, amount, count, checks) ==
  IF count > amount
    THEN [src |-> s, count |-> count, next |-> IF checks THEN "panic" ELSE "wrapped"]
    ELSE AddRendered(render_until_block_end(s, s.buffer, amount - count, checks),
                     amount, count)

\* A resize that pads with the last frame instead of silence.
ResizeRepeatsLast(s, amount) ==
  [s EXCEPT !.frame_samples =
     [k \in 1..amount |-> IF k <= Len(s.frame_samples) THEN s.frame_samples[k]
                          ELSE IF s.frame_samples = <<>> THEN Silence
                          ELSE s.frame_samples[Len(s.frame_samples)]]]
\* frame_samples.resize(amount, (0.0, 0.0)): pad with silence or truncate.
Resize(s, amount) ==
  [s EXCEPT !.frame_samples =
     [k \in 1..amount |-> IF k <= Len(s.frame_samples) THEN s.frame_samples[k] ELSE Silence]]

\* render decides whether render_playing runs at all.
EntersRenderPlaying(s) ==
  s.buffer # NoBuffer /\ s.status = "Playing" /\ Len(s.buffer.samples) > 0

\* The loop of render_playing run to its end.  An iteration that asks for
\* another one and leaves the source and the count as they were repeats
\* forever: outcome "spin".
RECURSIVE RenderPlayingLoop(_, _, _, _)
\* r is the result of the iteration that began with the source s at count.
NextIteration(r, s, amount, count, checks) ==
  IF r.next = "loop"
    THEN IF r.src = s /\ r.count = count
           THEN [src |-> s, outcome |-> "spin"]
           ELSE RenderPlayingLoop(r.src, amount, r.count, checks)
    ELSE [src |-> r.src, outcome |-> IF r.next = "done" THEN "ok" ELSE r.next]

RenderPlayingLoop(s, amount, count, checks) ==
  NextIteration(render_playing(s, amount, count, checks), s, amount, count, checks)

\* A whole call of SoundSource::render.
ResizeRendered(r, amount) ==
  IF r.outcome = "ok" THEN [src |-> Resize(r.src, amount), outcome |-> "ok"] ELSE r

RenderCleared(s0, amount, checks) ==
  IF ~ EntersRenderPlaying(s0)
    THEN [src |-> Resize(s0, amount), outcome |-> "ok"]
    ELSE ResizeRendered(RenderPlayingLoop(s0, amount, 0, checks), amount)

render(s, amount, checks) == RenderCleared([s EXCEPT !.frame_samples = <<>>], amount, checks)

\* ------------------------------------------------------------------ Pool
\* The generational arena of the context.  A record holds the generation
\* of its slot and the payload, None when the slot is free.  free_stack is
\* the free list, head first.
Handle(i, g) == [index |-> i, generation |-> g]
EmptyPool == [records |-> <<>>, free_stack |-> <<>>]

PoolIsValidHandle(p, h) ==
  /\ h.index \in 1..Len(p.records)
  /\ p.records[h.index].payload # None
  /\ p.records[h.index].generation = h.generation

\* spawn: reuse the head of the free list, else grow; the handle carries the
\* slot's current generation.
PoolSpawn(p, v) ==
  IF p.free_stack # <<>>
    THEN LET i == Head(p.free_stack)
         IN [pool |-> [records |-> [p.records EXCEPT ![i].payload = Some(v)],
                       free_stack |-> Tail(p.free_stack)],
             handle |-> Handle(i, p.records[i].generation)]
    ELSE [pool |-> [records |-> Append(p.records, [generation |-> 1, payload |-> Some(v)]),
                    free_stack |-> p.free_stack],
          handle |-> Handle(Len(p.records) + 1, 1)]

\* The slot i given up: value dropped, generation bumped, slot pushed onto
\* the free list.
PoolRelease(p, i) ==
  [records |-> [p.records EXCEPT ![i] = [generation |-> @.generation + 1, payload |-> None]],
   free_stack |-> <<i>> \o p.free_stack]

\* free: nothing happens to the pool unless the handle is valid.
PoolFree(p, h) == IF PoolIsValidHandle(p, h) THEN PoolRelease(p, h.index) ELSE p

\* retain: one pass over the slots in order, freeing the occupied ones whose
\* value fails the predicate; doomed is the set of their indices.
RECURSIVE PoolRetainFrom(_, _, _)
PoolRetainFrom(p, i, doomed) ==
  IF i > Len(p.records) THEN p
  ELSE IF p.records[i].payload # None /\ i \in doomed
    THEN PoolRetainFrom(PoolRelease(p, i), i + 1, doomed)
  ELSE PoolRetainFrom(p, i + 1, doomed)
PoolRetain(p, doomed) == PoolRetainFrom(p, 1, doomed)

\* The occupied slots, in the order iter and iter_mut visit them.
PoolOccupied(p) == {i \in 1..Len(p.records) : p.records[i].payload # None}
PoolHandles(p) == {Handle(i, p.records[i].generation) : i \in PoolOccupied(p)}

\* ------------------------------------------------------------------ AudioBusGraph
\* Buses by name; the primary bus always exists and has no parent.  An
\* effect chain is a sequence of Attenuate gains, times FP.
ChildBus == "Fx"
BusNames == {PrimaryBus, ChildBus}
AddFrames(a, b) == [k \in 1..Len(a) |-> <<a[k][1] + b[k][1], a[k][2] + b[k][2]>>]
SilentBlock(n) == [k \in 1..n |-> Silence]

NewBusGraph == [buses |-> (PrimaryBus :> [parent |-> None, effects |-> <<>>])]

\* add_bus: attach a new bus under an existing parent.
add_bus(g, name, parent, effects) ==
  IF parent \in DOMAIN g.buses /\ name \notin DOMAIN g.buses
    THEN [g EXCEPT !.buses = @ @@ (name :> [parent |-> Some(parent), effects |-> effects])]
    ELSE g

\* begin_render: one zeroed scratch buffer of the block length per bus.
begin_render(g, n) == [name \in DOMAIN g.buses |-> SilentBlock(n)]

\* An effect that adds the attenuated input to the input.
Attenuate_accumulates(gain, input) ==
  [k \in 1..Len(input) |-> <<input[k][1] + (input[k][1] * gain) \div FP,
                             input[k][2] + (input[k][2] * gain) \div FP>>]
\* Attenuate::render: output[i] = input[i] * gain, both channels.
Attenuate(gain, input) ==
  [k \in 1..Len(input) |-> <<(input[k][1] * gain) \div FP, (input[k][2] * gain) \div FP>>]

RECURSIVE ApplyEffects(_, _)
ApplyEffects(effects, block) ==
  IF effects = <<>> THEN block
  ELSE ApplyEffects(Tail(effects), Attenuate(Head(effects), block))

\* end_render: bottom-up, a bus's effect chain is applied to its input plus
\* its children's results; the primary bus's result is the output.
RECURSIVE BusResult(_, _, _)
BusResult(g, bufs, name) ==
  LET children == {c \in DOMAIN g.buses : g.buses[c].parent = Some(name)}
      Sum[S \in SUBSET children] ==
        IF S = {} THEN bufs[name]
        ELSE LET c == CHOOSE x \in S : TRUE
             IN AddFrames(Sum[S \ {c}], BusResult(g, bufs, c))
  IN ApplyEffects(g.buses[name].effects, Sum[children])
end_render(g, bufs) == BusResult(g, bufs, PrimaryBus)

\* ------------------------------------------------------------------ mixing
\* Mixed amplitudes are stored times the block length N, so that the gain
\* ramp last + (gain - last) * k / N is an integer.
Lerp(a, b, t) == a + (b - a) * t

\* Listener::new and a source at the listener's position: try_normalize
\* fails, and the look axis has no component along the ear axis.
calculate_panning(s) == 0

\* A ramp that runs from the current gain back to the last one.
render_with_params_ramps_backwards(s, left_gain, right_gain, mix_buffer) ==
  LET n == Len(mix_buffer)
      last_left == IF s.last_left_gain = None THEN left_gain ELSE s.last_left_gain[1]
      last_right == IF s.last_right_gain = None THEN right_gain ELSE s.last_right_gain[1]
  IN [k \in 1..n |->
        IF k > Len(s.frame_samples) THEN mix_buffer[k]
        ELSE <<mix_buffer[k][1]
                 + (left_gain * n + (last_left - left_gain) * (k - 1)) * s.frame_samples[k][1],
               mix_buffer[k][2]
                 + (right_gain * n + (last_right - right_gain) * (k - 1)) * s.frame_samples[k][2]>>]

\* A ramp that takes its first step before the first frame: t = 1/N, ..., 1.
render_with_params_steps_first(s, left_gain, right_gain, mix_buffer) ==
  [k \in 1..Len(mix_buffer) |->
     IF k > Len(s.frame_samples) THEN mix_buffer[k]
     ELSE <<mix_buffer[k][1]
              + ((IF s.last_left_gain = None THEN left_gain ELSE s.last_left_gain[1])
                   * (Len(mix_buffer) - k) + left_gain * k) * s.frame_samples[k][1],
            mix_buffer[k][2]
              + ((IF s.last_right_gain = None THEN right_gain ELSE s.last_right_gain[1])
                   * (Len(mix_buffer) - k) + right_gain * k) * s.frame_samples[k][2]>>]
\* A mix that stores the source's frames over what the bus buffer holds.
render_with_params_overwrites(s, left_gain, right_gain, mix_buffer) ==
  [k \in 1..Len(mix_buffer) |->
     IF k > Len(s.frame_samples) THEN mix_buffer[k]
     ELSE <<((IF s.last_left_gain = None THEN left_gain ELSE s.last_left_gain[1])
               * (Len(mix_buffer) - (k - 1)) + left_gain * (k - 1)) * s.frame_samples[k][1],
            ((IF s.last_right_gain = None THEN right_gain ELSE s.last_right_gain[1])
               * (Len(mix_buffer) - (k - 1)) + right_gain * (k - 1)) * s.frame_samples[k][2]>>]
\* render_with_params: ramp the gain across the block when it differs from
\* the last block's, else one multiply-accumulate.
render_with_params(s, left_gain, right_gain, mix_buffer) ==
  LET n == Len(mix_buffer)
      last_left == IF s.last_left_gain = None THEN left_gain ELSE s.last_left_gain[1]
      last_right == IF s.last_right_gain = None THEN right_gain ELSE s.last_right_gain[1]
      m == Min(n, Len(s.frame_samples))
  IN [k \in 1..n |->
        IF k > m THEN mix_buffer[k]
        ELSE IF last_left # left_gain \/ last_right # right_gain
          THEN <<mix_buffer[k][1]
                   + (last_left * n + (left_gain - last_left) * (k - 1)) * s.frame_samples[k][1],
                 mix_buffer[k][2]
                   + (last_right * n + (right_gain - last_right) * (k - 1)) * s.frame_samples[k][2]>>
          ELSE <<mix_buffer[k][1] + left_gain * n * s.frame_samples[k][1],
                 mix_buffer[k][2] + right_gain * n * s.frame_samples[k][2]>>]

LeftGain(s) == s.gain * (1 + Lerp(s.panning, calculate_panning(s), s.spatial_blend))
RightGain(s) == s.gain * (1 - Lerp(s.panning, calculate_panning(s), s.spatial_blend))

\* A mix that does not record the gains it used.
render_source_forgets_gains(s, mix_buffer) ==
  [src |-> s, buffer |-> render_with_params(s, LeftGain(s), RightGain(s), mix_buffer)]

\* render_source_default: the source after the mix, and the bus buffer.
render_source_default(s, mix_buffer) ==
  [src |-> [s EXCEPT !.last_left_gain = Some(LeftGain(s)),
                      !.last_right_gain = Some(RightGain(s))],
   buffer |-> render_with_params(s, LeftGain(s), RightGain(s), mix_buffer)]

\* ------------------------------------------------------------------ SoundContextState
NewContext == [sources |-> EmptyPool, bus_graph |-> NewBusGraph, paused |-> FALSE]

add_source(c, s) ==
  LET r == PoolSpawn(c.sources, s)
  IN [ctx |-> [c EXCEPT !.sources = r.pool], handle |-> r.handle]
\* A remove_source that empties the slot and leaves its generation alone.
remove_source_same_generation(c, h) ==
  IF PoolIsValidHandle(c.sources, h)
    THEN [c EXCEPT !.sources =
            [records |-> [@.records EXCEPT ![h.index].payload = None],
             free_stack |-> <<h.index>> \o @.free_stack]]
    ELSE c
\* A remove_source that frees the occupant of the slot whatever its generation.
remove_source_any_generation(c, h) ==
  IF h.index \in PoolOccupied(c.sources)
    THEN [c EXCEPT !.sources = PoolRelease(@, h.index)]
    ELSE c
remove_source(c, h) == [c EXCEPT !.sources = PoolFree(@, h)]
is_valid_handle(c, h) == PoolIsValidHandle(c.sources, h)

\* A take_reserve that hands the slot to the free list.
take_reserve_frees_slot(c, h) ==
  [ctx |-> [c EXCEPT !.sources =
              [records |-> [@.records EXCEPT ![h.index].payload = None],
               free_stack |-> <<h.index>> \o @.free_stack]],
   ticket |-> [index |-> h.index],
   value |-> c.sources.records[h.index].payload[1]]
\* take_reserve of a valid handle: the value leaves its slot, which stays
\* reserved: empty, and not on the free list.
take_reserve(c, h) ==
  [ctx |-> [c EXCEPT !.sources.records[h.index].payload = None],
   ticket |-> [index |-> h.index],
   value |-> c.sources.records[h.index].payload[1]]
\* put_back: the value returns to the slot of the ticket, at the
\* generation the slot has kept.
put_back(c, t, v) ==
  [ctx |-> [c EXCEPT !.sources.records[t.index].payload = Some(v)],
   handle |-> Handle(t.index, c.sources.records[t.index].generation)]
\* forget_ticket: the slot of the ticket is released to the free list.
forget_ticket(c, t) == [c EXCEPT !.sources = PoolRelease(@, t.index)]

\* A borrow that does not compare generations.
source_ignores_generation(c, h) ==
  IF h.index \notin 1..Len(c.sources.records) \/ c.sources.records[h.index].payload = None
    THEN [outcome |-> "panic", value |-> None]
    ELSE [outcome |-> "ok", value |-> c.sources.records[h.index].payload]
\* source and source_mut: borrow and borrow_mut, which fail when the slot
\* is empty or its generation is not the handle's.
source(c, h) ==
  IF \/ h.index \notin 1..Len(c.sources.records)
     \/ c.sources.records[h.index].payload = None
     \/ c.sources.records[h.index].generation # h.generation
    THEN [outcome |-> "panic", value |-> None]
    ELSE [outcome |-> "ok", value |-> c.sources.records[h.index].payload]
\* try_get_source_mut: try_borrow_mut, the same test without the failure.
try_get_source_mut(c, h) ==
  IF \/ h.index \notin 1..Len(c.sources.records)
     \/ c.sources.records[h.index].payload = None
     \/ c.sources.records[h.index].generation # h.generation
    THEN None
    ELSE c.sources.records[h.index].payload
ctx_pause(c, p) == [c EXCEPT !.paused = p]
SourceAt(c, i) == c.sources.records[i].payload[1]
PutSource(c, i, s) == [c EXCEPT !.sources.records[i].payload = Some(s)]

\* A retain predicate that forgets play_once.
DoneWhenStopped(s) == s.status = "Stopped"
\* The predicate of the retain in render: a play-once source that stopped.
Done(s) == s.play_once /\ s.status = "Stopped"

\* The body of the loop over the Playing sources, for the source in slot i.
\* st holds the context, the bus buffers and the outcome so far.
MixedToBus(st, i, bus, m) ==
  [st EXCEPT !.ctx = PutSource(@, i, m.src), !.bufs[bus] = m.buffer]

RenderedToBus(st, i, bus, r) ==
  IF r.outcome # "ok"
    THEN [st EXCEPT !.ctx = PutSource(@, i, r.src), !.outcome = r.outcome]
    ELSE MixedToBus(st, i, bus, render_source_default(r.src, st.bufs[bus]))

\* A loop body that renders a Playing source before it looks for its bus.
SourceToBus_renders_unrouted(st, i, s, n, checks) ==
  IF s.status # "Playing" THEN st
  ELSE IF s.bus \notin DOMAIN st.bufs
    THEN [st EXCEPT !.ctx = PutSource(@, i, render(s, n, checks).src),
                    !.outcome = render(s, n, checks).outcome]
  ELSE RenderedToBus(st, i, s.bus, render(s, n, checks))
\* A loop body that skips only the Stopped sources.
SourceToBus_renders_paused(st, i, s, n, checks) ==
  IF s.status = "Stopped" \/ s.bus \notin DOMAIN st.bufs
    THEN st
    ELSE RenderedToBus(st, i, s.bus, render([s EXCEPT !.status = "Playing"], n, checks))
SourceToBus(st, i, s, n, checks) ==
  IF s.status # "Playing" \/ s.bus \notin DOMAIN st.bufs
    THEN st
    ELSE RenderedToBus(st, i, s.bus, render(s, n, checks))

\* A loop body that sends a source whose bus is missing to the primary bus.
RenderSourceToPrimary(st, i, n, checks) ==
  IF SourceAt(st.ctx, i).status # "Playing"
    THEN st
    ELSE RenderedToBus(st, i,
                       IF SourceAt(st.ctx, i).bus \in DOMAIN st.bufs
                         THEN SourceAt(st.ctx, i).bus ELSE PrimaryBus,
                       render(SourceAt(st.ctx, i), n, checks))

RenderSourceToBus(st, i, n, checks) == SourceToBus(st, i, SourceAt(st.ctx, i), n, checks)

RECURSIVE RenderSources(_, _, _, _)
RenderSources(st, i, n, checks) ==
  IF i > Len(st.ctx.sources.records) \/ st.outcome # "ok" THEN st
  ELSE IF st.ctx.sources.records[i].payload = None THEN RenderSources(st, i + 1, n, checks)
  ELSE RenderSources(RenderSourceToBus(st, i, n, checks), i + 1, n, checks)

\* SoundContextState::render into the output buffer buf.
\* self.sources.retain(|source| !(source.is_play_once() && Stopped)).
RetainSources(c) ==
  [c EXCEPT !.sources =
     PoolRetain(@, {i \in PoolOccupied(c.sources) : Done(SourceAt(c, i))})]

\* The end of the render: st is the state after the loop over the sources.
EndRender(c, buf, st) ==
  IF st.outcome # "ok"
    THEN [ctx |-> st.ctx, output |-> buf, outcome |-> st.outcome]
    ELSE [ctx |-> st.ctx, output |-> end_render(c.bus_graph, st.bufs), outcome |-> "ok"]

\* A render that runs the retain of a paused context as well.
ctx_render_retains_when_paused(c, buf, checks) ==
  IF c.paused
    THEN [ctx |-> RetainSources(c), output |-> buf, outcome |-> "ok"]
    ELSE EndRender(c, buf,
                   RenderSources([ctx |-> RetainSources(c),
                                  bufs |-> begin_render(c.bus_graph, Len(buf)),
                                  outcome |-> "ok"], 1, Len(buf), checks))

ctx_render(c, buf, checks) ==
  IF c.paused
    THEN [ctx |-> c, output |-> buf, outcome |-> "ok"]
    ELSE EndRender(c, buf,
                   RenderSources([ctx |-> RetainSources(c),
                                  bufs |-> begin_render(c.bus_graph, Len(buf)),
                                  outcome |-> "ok"], 1, Len(buf), checks))

\* An engine render that does not zero the block.
engine_render_without_fill(c, buf, checks) == ctx_render(c, buf, checks)
\* SoundEngineState::render for one registered context: the buffer is
\* zeroed, then the context renders into it.
engine_render(c, buf, checks) == ctx_render(c, SilentBlock(Len(buf)), checks)

\* ------------------------------------------------------------------ threads and locks
\* Thread 0 is the audio callback, threads 1..MaxThreads are control threads.
Callback == 0
ControlThreads == 1..MaxThreads
Threads == 0..MaxThreads
EngineLock == "engine"
ContextLock == "context"
Locks == {EngineLock, ContextLock}

\* Mutex::new: unlocked and not poisoned.  A thread that has started nothing.
NewMutex == [holder |-> None, poisoned |-> FALSE]
NewThread == [pc |-> "idle", held |-> <<>>, todo |-> <<>>, want |-> None, i |-> 0]

\* The one source of the context of the engine, and its handle.
EngineSource == NewSource(MkBuffer(1, 1), FP)
EngineHandle == Handle(1, 1)

\* SoundEngine::without_device, SoundContext::new and one add_source; no
\* thread has started an operation.
EngineIdle ==
  /\ mutex = [m \in Locks |-> NewMutex]
  /\ thread = [t \in Threads |-> NewThread]
  /\ contexts = 0
  /\ lin = [ctx |-> add_source(NewContext, EngineSource).ctx, output |-> SilentBlock(BlockLen)]
  /\ inverted = FALSE

\* ------------------------------------------------------------------ one source
\* The operations of one SoundSource, called by its single owner (&mut self):
\* no operation starts while a render call is in flight.
Idle == [pc |-> "idle", amount |-> 0, count |-> 0, iter |-> 0]

SourceInit ==
  /\ \E b \in Buffers \cup {NoBuffer}, m \in Multipliers : src = NewSource(b, m)
  /\ call = Idle
  /\ lastOp = "new"
  /\ lastFrom = "Stopped"
  /\ run = <<>>
  /\ runStart = 0
  /\ made = NoCall
  /\ heap = NoHeap
  /\ ctx = NewContext
  /\ output = SilentBlock(BlockLen)
  /\ freed = None
  /\ lastHandle = None
  /\ ended = {}
  /\ reserved = None
  /\ EngineIdle

\* A control operation op that turns src into s; restart tells whether the
\* run of consecutive step-1 blocks begins anew at the position of s.
Control(op, s, restart) ==
  /\ call.pc = "idle"
  /\ src' = s
  /\ lastOp' = op
  /\ lastFrom' = src.status
  /\ run' = IF restart THEN <<>> ELSE run
  /\ runStart' = IF restart THEN s.buf_read_pos ELSE runStart
  /\ UNCHANGED <<call, made, heap, ctxVars, engVars>>

SrcPlay == Control("play", play(src), src.status = "Stopped")
SrcPause == Control("pause", pause(src), FALSE)
SrcStop == Control("stop", stop(src), TRUE)
SrcSetPitch == \E p \in PitchArgs : Control("set_pitch", set_pitch(src, p), TRUE)
SrcSetLooping == \E l \in BOOLEAN : Control("set_looping", set_looping(src, l), TRUE)

\* The end of a render call: pad or truncate, record the block.
Finish(s, amount, played) ==
  LET s1 == Resize(s, amount)
  IN /\ src' = s1
     /\ call' = Idle
     /\ lastOp' = "render"
     /\ lastFrom' = src.status
     /\ UNCHANGED <<made, heap, ctxVars, engVars>>
     /\ IF ~ played
          THEN UNCHANGED <<run, runStart>>
        ELSE IF Step(src) = FP
          THEN run' = run \o s1.frame_samples /\ UNCHANGED runStart
        ELSE run' = <<>> /\ runStart' = s1.buf_read_pos

\* render(amount) up to the call of render_playing.
SrcRender ==
  \E amount \in 0..MaxAmount :
    LET s == [src EXCEPT !.frame_samples = <<>>]
    IN /\ call.pc = "idle"
       /\ (EntersRenderPlaying(src) /\ Step(src) = FP) => Len(run) + amount <= MaxRun
       /\ IF EntersRenderPlaying(src)
            THEN /\ src' = s
                 /\ call' = [pc |-> "render_playing", amount |-> amount,
                             count |-> 0, iter |-> 0]
                 /\ UNCHANGED <<lastOp, lastFrom, run, runStart, made, heap, ctxVars, engVars>>
            ELSE Finish(s, amount, FALSE)

\* One iteration of the loop of render_playing; iter is its parity.
SrcRenderPlaying ==
  /\ call.pc = "render_playing"
  /\ \E checks \in BOOLEAN :
       LET r == render_playing(src, call.amount, call.count, checks)
       IN IF r.next = "loop"
            THEN /\ src' = r.src
                 /\ call' = [call EXCEPT !.count = r.count, !.iter = 1 - @]
                 /\ UNCHANGED <<lastOp, lastFrom, run, runStart, made, heap, ctxVars, engVars>>
          ELSE IF r.next = "done"
            THEN Finish(r.src, call.amount, TRUE)
          ELSE /\ src' = r.src
               /\ call' = [call EXCEPT !.pc = r.next, !.count = r.count]
               /\ UNCHANGED <<lastOp, lastFrom, run, runStart, made, heap, ctxVars, engVars>>

SourceNext ==
  \/ SrcPlay
  \/ SrcPause
  \/ SrcStop
  \/ SrcSetPitch
  \/ SrcSetLooping
  \/ SrcRender
  \/ SrcRenderPlaying

SourceSpec == SourceInit /\ [][SourceNext]_vars

\* The loop of render_playing keeps running once entered: the thread that
\* called render is not suspended inside it.
FairSourceSpec == SourceSpec /\ WF_vars(SrcRenderPlaying)

\* ------------------------------------------------------------------ claims on one source

\* C2: every call of SoundSource::render returns, for every amount, every
\* non-empty buffer, every stored pitch and both values of looping: once the
\* loop of render_playing is entered it is left again.
C2_RenderTerminates == (call.pc = "render_playing") ~> (call.pc # "render_playing")

\* The status edges C7 lists, as (status before, operation, status after).
ClaimedEdges ==
  { <<"Stopped", "play", "Playing">>,
    <<"Playing", "pause", "Paused">>,
    <<"Paused", "play", "Playing">>,
    <<"Playing", "stop", "Stopped">>,
    <<"Paused", "stop", "Stopped">>,
    <<"Playing", "render", "Stopped">> }

\* C7 as stated: the status changes only along the listed edges; Paused is
\* entered only from Playing.
C7_ClaimedEdgesOnly ==
  lastFrom # src.status => <<lastFrom, lastOp, src.status>> \in ClaimedEdges

\* C7 as amended: the status changes only along the listed edges or from
\* Stopped to Paused by pause(); render changes it only from Playing to
\* Stopped, on a source that does not loop, and leaves the source rewound.
C7_StatusEdges ==
  lastFrom # src.status =>
    /\ <<lastFrom, lastOp, src.status>> \in
         ClaimedEdges \cup { <<"Stopped", "pause", "Paused">> }
    /\ lastOp = "render" => ~ src.looping /\ src.buf_read_pos = 0

C7_Witness ==
  lastOp = "pause" /\ lastFrom = "Stopped" /\ src.status = "Paused"

\* What render(n) emits from frame 0 at step 1: the frames in order, wrapped
\* when looping, else followed by silence.
FromFrameZero(s, n) ==
  [k \in 1..n |->
     IF s.looping THEN Frame(s.buffer, (k - 1) % BufferLen(s.buffer))
     ELSE IF k <= BufferLen(s.buffer) THEN Frame(s.buffer, k - 1)
     ELSE Silence]

\* C8: stop(), in any status and at any position, leaves status Stopped and
\* both positions 0 and changes no other field; a following play() and
\* render at step 1 emits the buffer from frame 0.
C8_StopRewinds ==
  [][SrcStop =>
       /\ src'.status = "Stopped"
       /\ src'.buf_read_pos = 0
       /\ src'.playback_pos = 0
       /\ [src' EXCEPT !.status = src.status,
                       !.buf_read_pos = src.buf_read_pos,
                       !.playback_pos = src.playback_pos] = src
       /\ \A n \in 0..MaxAmount, checks \in BOOLEAN :
            LET p == play(src')
                r == render(p, n, checks)
            IN (EntersRenderPlaying(p) /\ Step(p) = FP) =>
                 /\ r.outcome = "ok"
                 /\ r.src.frame_samples = FromFrameZero(p, n)]_vars

C8_Witness ==
  /\ lastOp = "stop"
  /\ lastFrom = "Playing"
  /\ Step(src) = FP
  /\ src.frame_samples # <<>>
  /\ \A k \in 1..Len(src.frame_samples) : src.frame_samples[k] # Silence

\* C9: at step 1 the blocks of consecutive render calls, put end to end, are
\* the buffer's frames in order from the position the run began at, mono
\* frames doubled and stereo frames as their pair, whatever the block
\* lengths; both position counters advance by the number of frames emitted.
C9_FramesInOrder ==
  (call.pc = "idle" /\ run # <<>>) =>
    LET b == src.buffer
        from == Floor(runStart)
    IN /\ \A n \in 1..Len(run) :
            from + n - 1 < BufferLen(b) => run[n] = Frame(b, from + n - 1)
       /\ from + Len(run) <= BufferLen(b) =>
            /\ src.buf_read_pos = runStart + FP * Len(run)
            /\ src.playback_pos = runStart + FP * Len(run)

C9_Witness ==
  /\ call.pc = "idle"
  /\ lastOp = "render"
  /\ ~ src.looping
  /\ src.buffer.channel_count = 2
  /\ Len(src.frame_samples) > 0
  /\ Len(run) > Len(src.frame_samples)
  /\ \A n \in 1..Len(run) : run[n] # Silence

\* C10: looping at step 1, the n-th frame of the run is buffer frame
\* (start + n) mod L for any block lengths, no frame of it is silence, and
\* the status is still Playing after every render.
C10_LoopingWraps ==
  (call.pc = "idle" /\ src.looping /\ run # <<>>) =>
    LET b == src.buffer
        from == Floor(runStart)
    IN /\ \A n \in 1..Len(run) :
            /\ run[n] = Frame(b, (from + n - 1) % BufferLen(b))
            /\ run[n] # Silence
       /\ (lastOp = "render" /\ lastFrom = "Playing") => src.status = "Playing"

C10_Witness ==
  /\ call.pc = "idle"
  /\ run # <<>>
  /\ src.looping
  /\ lastOp = "render"
  /\ runStart = 0
  /\ Len(src.frame_samples) > BufferLen(src.buffer)
  /\ Len(run) > Len(src.frame_samples)

\* n entries of silence.
Padding(n) == [k \in 1..n |-> Silence]

\* The frames left in the buffer of s at its read position (none beyond the end).
Remaining(s) ==
  IF BufferLen(s.buffer) > Floor(s.buf_read_pos)
    THEN BufferLen(s.buffer) - Floor(s.buf_read_pos)
    ELSE 0

\* C11: a Playing source that does not loop, asked at step 1 by
\* render(amount) for more frames than remain in its buffer, emits the
\* remaining frames in order, then silence up to amount, and returns
\* Stopped with both positions 0, in every build.
C11_StopsAtEndOfBuffer ==
  (call.pc = "idle" /\ EntersRenderPlaying(src) /\ ~ src.looping /\ Step(src) = FP) =>
    \A amount \in 0..MaxAmount, checks \in BOOLEAN :
      amount > Remaining(src) =>
        LET r == render(src, amount, checks)
        IN /\ r.outcome = "ok"
           /\ r.src.frame_samples =
                Copy(src.buffer, Floor(src.buf_read_pos), Remaining(src))
                  \o Padding(amount - Remaining(src))
           /\ r.src.status = "Stopped"
           /\ r.src.buf_read_pos = 0
           /\ r.src.playback_pos = 0

\* What the loop of render_playing pushed before the resize, for a call
\* that returns.
Produced(s, amount, checks) ==
  IF EntersRenderPlaying(s)
    THEN RenderPlayingLoop([s EXCEPT !.frame_samples = <<>>], amount, 0, checks).src.frame_samples
    ELSE <<>>

\* C12: every render(amount) that returns, in any status, with or without
\* a buffer, at any pitch and looping setting, leaves exactly amount entries
\* in frame_samples: the frames the loop produced, in order, and silence in
\* every entry after them.
C12_ExactlyAmountEntries ==
  call.pc = "idle" =>
    \A amount \in 0..MaxAmount, checks \in BOOLEAN :
      LET r == render(src, amount, checks)
          produced == Produced(src, amount, checks)
      IN r.outcome = "ok" =>
           /\ Len(r.src.frame_samples) = amount
           /\ \A k \in 1..amount :
                r.src.frame_samples[k] = IF k <= Len(produced) THEN produced[k] ELSE Silence

\* A render has just returned a block that ends in padding: the source ran
\* out of frames, or was not Playing.
C12_Witness ==
  /\ call.pc = "idle"
  /\ lastOp = "render"
  /\ lastFrom = "Playing"
  /\ src.status = "Stopped"
  /\ Len(src.frame_samples) > 1
  /\ src.frame_samples[1] # Silence
  /\ src.frame_samples[Len(src.frame_samples)] = Silence

\* C27: for any interleaving of set_pitch, play, pause, stop and render on
\* a source with a non-empty buffer, a render never indexes outside the
\* samples of the buffer and never underflows a frame count, in any build:
\* whenever the fast path is about to start, buf_read_pos is at most the
\* length of the buffer in frames, also after a block rendered with a step
\* larger than the buffer.
C27_FastPathStartsInsideBuffer ==
  (call.pc = "idle" /\ EntersRenderPlaying(src) /\ Step(src) = FP) =>
    /\ Floor(src.buf_read_pos) <= BufferLen(src.buffer)
    /\ \A amount \in 1..MaxAmount, checks \in BOOLEAN :
         render(src, amount, checks).outcome \notin {"panic", "wrapped"}

C30_PrevSampleIsLastEmitted ==
  (call.pc = "idle" /\ EntersRenderPlaying(src)) =>
    \A amount \in 1..MaxAmount, checks \in BOOLEAN :
      LET emitted == RenderPlayingLoop([src EXCEPT !.frame_samples = <<>>],
                                       amount, 0, checks).src.frame_samples
      IN (render(src, amount, checks).outcome = "ok" /\ emitted # <<>>) =>
           render(src, amount, checks).src.prev_buffer_sample = emitted[Len(emitted)]

\* ------------------------------------------------------------------ the Buffer constructors
\* The constructors applied to raw data: sample vectors of up to MaxSamples
\* samples, byte streams of up to MaxBytes bytes.
ChannelCounts == 0..3
SampleValues == {1, 2}
ByteValues == {0, 1}
SampleVectors == UNION {[1..n -> SampleValues] : n \in 0..MaxSamples}
ByteStreams == UNION {[1..n -> ByteValues] : n \in 0..MaxBytes}

BufferInit ==
  /\ made = NoCall
  /\ heap = NoHeap
  /\ src = NewSource(NoBuffer, FP)
  /\ call = Idle
  /\ lastOp = "new"
  /\ lastFrom = "Stopped"
  /\ run = <<>>
  /\ runStart = 0
  /\ ctx = NewContext
  /\ output = SilentBlock(BlockLen)
  /\ freed = None
  /\ lastHandle = None
  /\ ended = {}
  /\ reserved = None
  /\ EngineIdle

BufNewRaw ==
  /\ \E c \in ChannelCounts, s \in SampleVectors :
       made' = [NoCall EXCEPT !.op = "Buffer::new(Raw)", !.channel_count = c,
                              !.samples = s, !.result = Buffer_new(c, s)]
  /\ lastOp' = "Buffer::new(Raw)"
  /\ UNCHANGED <<src, call, lastFrom, run, runStart, heap, ctxVars, engVars>>

BufNew ==
  /\ \E s \in SampleVectors, mono \in BOOLEAN :
       made' = [NoCall EXCEPT !.op = "Buffer::new", !.is_mono = mono,
                              !.samples = s, !.result = Ok(dissection_Buffer_new(s, mono))]
  /\ lastOp' = "Buffer::new"
  /\ UNCHANGED <<src, call, lastFrom, run, runStart, heap, ctxVars, engVars>>

BufReadPcm ==
  /\ \E b \in ByteStreams, read_ok \in BOOLEAN, mono \in BOOLEAN :
       made' = [NoCall EXCEPT !.op = "Buffer::read_pcm", !.is_mono = mono,
                              !.bytes = b, !.result = read_pcm(b, read_ok, mono)]
  /\ lastOp' = "Buffer::read_pcm"
  /\ UNCHANGED <<src, call, lastFrom, run, runStart, heap, ctxVars, engVars>>

BufferNext ==
  \/ BufNewRaw
  \/ BufNew
  \/ BufReadPcm

BufferSpec == BufferInit /\ [][BufferNext]_vars

\* C19: Buffer::new on DataSource::Raw is an error exactly when the channel
\* count is neither 1 nor 2 (0 included, with no division by zero) or the
\* number of samples is not a multiple of the channel count; otherwise the
\* buffer holds the samples as given and channel_duration_in_samples is the
\* number of samples divided by the channel count.
C19_RawBufferValidated ==
  made.op = "Buffer::new(Raw)" =>
    /\ made.result.outcome # "panic"
    /\ made.result.outcome = "Err" <=>
         \/ made.channel_count \notin {1, 2}
         \/ Len(made.samples) % made.channel_count # 0
    /\ made.result.outcome = "Ok" =>
         /\ made.result.buffer.samples = made.samples
         /\ made.result.buffer.channel_count = made.channel_count
         /\ made.result.buffer.channel_duration_in_samples
              = Len(made.samples) \div made.channel_count

\* Buffer::new was given a channel count of 0 and a non-empty vector.
C19_Witness ==
  /\ made.op = "Buffer::new(Raw)"
  /\ made.channel_count = 0
  /\ made.samples # <<>>
  /\ made.result.outcome = "Err"

\* C20: every buffer a constructor returns has a number of samples that is
\* a multiple of its channel count: a constructor given anything else fails.
C20_SamplesMultipleOfChannels ==
  made.result.outcome = "Ok" =>
    Len(made.result.buffer.samples) % channel_count(made.result.buffer) = 0

\* ------------------------------------------------------------------ the pool of a context
\* add_source, remove_source and the render pass on the pool of one
\* context.  The sources handed over are Stopped; they differ in play_once.
PoolTemplates ==
  { [NewSource(MkBuffer(1, MaxFrames), FP) EXCEPT !.play_once = o] : o \in BOOLEAN }

ContextInit ==
  /\ ctx = NewContext
  /\ output = SilentBlock(BlockLen)
  /\ freed = None
  /\ lastHandle = None
  /\ ended = {}
  /\ reserved = None
  /\ EngineIdle
  /\ lastOp = "new"
  /\ src = NewSource(NoBuffer, FP)
  /\ call = Idle
  /\ lastFrom = "Stopped"
  /\ run = <<>>
  /\ runStart = 0
  /\ made = NoCall
  /\ heap = NoHeap

PoolInit == ContextInit

\* add_source; a slot is reused while its generation is at most MaxGeneration.
PoolAdd ==
  \E s \in PoolTemplates :
    LET p == ctx.sources
        r == add_source(ctx, s)
    IN /\ IF p.free_stack = <<>>
            THEN Len(p.records) < MaxSlots
            ELSE p.records[Head(p.free_stack)].generation <= MaxGeneration
       /\ ctx' = r.ctx
       /\ lastHandle' = Some(r.handle)
       /\ lastOp' = "add_source"
       /\ UNCHANGED <<output, freed, ended, reserved, srcVars, engVars>>

\* remove_source with a valid handle, or with the freed handle under watch.
\* The history keeps one freed handle: any one, chosen when it is freed.
PoolRemove ==
  \E h \in PoolHandles(ctx.sources) \cup {freed[k] : k \in 1..Len(freed)} :
    /\ ctx' = remove_source(ctx, h)
    /\ \/ UNCHANGED freed
       \/ freed = None /\ is_valid_handle(ctx, h) /\ freed' = Some(h)
    /\ lastOp' = "remove_source"
    /\ UNCHANGED <<output, lastHandle, reserved, ended, srcVars, engVars>>

\* One render pass, as the audio callback runs it.
PoolRender ==
  \E checks \in BOOLEAN :
    LET r == engine_render(ctx, output, checks)
    IN /\ r.outcome = "ok"
       /\ ctx' = r.ctx
       /\ output' = r.output
       /\ lastOp' = "render"
       /\ UNCHANGED <<freed, lastHandle, reserved, ended, srcVars, engVars>>

PoolNext ==
  \/ PoolAdd
  \/ PoolRemove
  \/ PoolRender

PoolSpec == PoolInit /\ [][PoolNext]_vars

\* C1: once remove_source(h) has been applied to a valid handle h,
\* is_valid_handle(h) is false in every later state, whatever add_source,
\* remove_source and render passes follow; and when a later add_source
\* reuses the slot of h, the handle it returns has the index of h and a
\* generation different from that of h.
C1_FreedHandleStaysInvalid ==
  freed # None =>
    /\ ~ is_valid_handle(ctx, freed[1])
    /\ (lastOp = "add_source" /\ lastHandle[1].index = freed[1].index)
         => /\ lastHandle[1].generation # freed[1].generation
            /\ is_valid_handle(ctx, lastHandle[1])

\* The slot of the freed handle was reused by the last add_source.
C1_Witness ==
  /\ freed # None
  /\ lastOp = "add_source"
  /\ lastHandle[1].index = freed[1].index

\* Every handle the pool of a context may have issued, or may yet issue.
AllHandles == {Handle(i, g) : i \in 1..MaxSlots, g \in 1..(MaxGeneration + 2)}

\* C21: remove_source with a stale handle, whether its slot is free or
\* occupied again, leaves the pool as it is: the occupant of the slot keeps
\* its valid handle, the generation of the slot is not bumped and the slot
\* is not pushed onto the free list again.
C21_StaleRemoveIsNoOp ==
  \A h \in AllHandles :
    ~ is_valid_handle(ctx, h) =>
      /\ remove_source(ctx, h) = ctx
      /\ PoolHandles(remove_source(ctx, h).sources) = PoolHandles(ctx.sources)
      /\ remove_source(ctx, h).sources.free_stack = ctx.sources.free_stack

\* remove_source has just been applied to a stale handle whose slot was
\* occupied again: no slot is free after it.
C21_Witness ==
  /\ lastOp = "remove_source"
  /\ freed # None
  /\ freed[1].index \in PoolOccupied(ctx.sources)
  /\ PoolOccupied(ctx.sources) = 1..Len(ctx.sources.records)

\* ------------------------------------------------------------------ tickets and borrows
\* The pool of one context with add_source, remove_source, the render pass
\* and one reservation at a time: take_reserve, a play() on the source taken,
\* put_back or forget_ticket.  Each source carries, in its gain, the mark of
\* the handle it is issued.
Mark(h) == 10 * h.index + h.generation

TicketInit == ContextInit

TicketAdd ==
  \E s \in PoolTemplates :
    LET p == ctx.sources
        h == add_source(ctx, s).handle
    IN /\ IF p.free_stack = <<>>
            THEN Len(p.records) < MaxSlots
            ELSE p.records[Head(p.free_stack)].generation <= MaxGeneration
       /\ ctx' = add_source(ctx, set_gain(s, Mark(h))).ctx
       /\ lastHandle' = Some(h)
       /\ lastOp' = "add_source"
       /\ UNCHANGED <<output, freed, ended, reserved, srcVars, engVars>>

\* take_reserve panics on an invalid handle: it is called with a valid one.
\* The reservation remembers the handle, for the history.
TicketTake ==
  /\ reserved = None
  /\ \E h \in PoolHandles(ctx.sources) :
       /\ ctx' = take_reserve(ctx, h).ctx
       /\ reserved' = Some([ticket |-> take_reserve(ctx, h).ticket,
                            value |-> take_reserve(ctx, h).value,
                            handle |-> h])
  /\ lastOp' = "take_reserve"
  /\ UNCHANGED <<output, freed, lastHandle, ended, srcVars, engVars>>

\* The owner of the source taken calls play() on it.
TicketPlay ==
  /\ reserved # None
  /\ reserved[1].value.status = "Stopped"
  /\ reserved' = Some([reserved[1] EXCEPT !.value = play(@)])
  /\ lastOp' = "control"
  /\ UNCHANGED <<ctx, output, freed, lastHandle, ended, srcVars, engVars>>

TicketPutBack ==
  /\ reserved # None
  /\ ctx' = put_back(ctx, reserved[1].ticket, reserved[1].value).ctx
  /\ lastHandle' = Some(put_back(ctx, reserved[1].ticket, reserved[1].value).handle)
  /\ reserved' = None
  /\ lastOp' = "put_back"
  /\ UNCHANGED <<output, freed, ended, srcVars, engVars>>

TicketForget ==
  /\ reserved # None
  /\ ctx' = forget_ticket(ctx, reserved[1].ticket)
  /\ reserved' = None
  /\ lastOp' = "forget_ticket"
  /\ UNCHANGED <<output, freed, lastHandle, ended, srcVars, engVars>>

TicketNext ==
  \/ TicketAdd
  \/ PoolRemove
  \/ PoolRender
  \/ TicketTake
  \/ TicketPlay
  \/ TicketPutBack
  \/ TicketForget

TicketSpec == TicketInit /\ [][TicketNext]_vars

C23_ReservationHoldsSlot ==
  /\ [](reserved # None =>
          /\ reserved[1].ticket.index \notin PoolOccupied(ctx.sources)
          /\ ~ is_valid_handle(ctx, reserved[1].handle))
  /\ [][ /\ (reserved # None /\ lastOp' = "add_source") =>
              lastHandle'[1].index # reserved[1].ticket.index
         /\ (reserved # None /\ lastOp' = "render") => reserved' = reserved
         /\ lastOp' = "put_back" =>
              /\ lastHandle' = Some(reserved[1].handle)
              /\ is_valid_handle(ctx', reserved[1].handle)
              /\ source(ctx', reserved[1].handle).value = Some(reserved[1].value)
         /\ lastOp' = "forget_ticket" =>
              /\ ~ is_valid_handle(ctx', reserved[1].handle)
              /\ \A s \in PoolTemplates :
                   add_source(ctx', s).handle.index = reserved[1].ticket.index ]_vars

\* An add_source has grown the pool while slot 1 was reserved and the free
\* list was empty.
C23_Witness ==
  /\ reserved # None
  /\ lastOp = "add_source"
  /\ reserved[1].value.status = "Playing"
  /\ ctx.sources.free_stack = <<>>

\* ------------------------------------------------------------------ the mix of a context
\* Two sources in one context: their playback control, the context's pause
\* flag, the bus graph and the render pass.
MixTemplates ==
  { [NewSource(MkBuffer(1, MaxFrames), FP) EXCEPT !.looping = l, !.bus = b] :
      l \in BOOLEAN, b \in BusNames }

MixInit ==
  /\ \E s1 \in MixTemplates, s2 \in MixTemplates :
       ctx = add_source(add_source(NewContext, s1).ctx, s2).ctx
  /\ output = SilentBlock(BlockLen)
  /\ freed = None
  /\ lastHandle = None
  /\ ended = {}
  /\ reserved = None
  /\ EngineIdle
  /\ lastOp = "new"
  /\ src = NewSource(NoBuffer, FP)
  /\ call = Idle
  /\ lastFrom = "Stopped"
  /\ run = <<>>
  /\ runStart = 0
  /\ made = NoCall
  /\ heap = NoHeap

\* play, pause or stop through source_mut(h).
MixSourceOp ==
  \E h \in PoolHandles(ctx.sources) :
    \E op \in {"play", "pause", "stop"} :
      LET s == SourceAt(ctx, h.index)
          s1 == CASE op = "play" -> play(s)
                  [] op = "pause" -> pause(s)
                  [] op = "stop" -> stop(s)
      IN /\ ctx' = PutSource(ctx, h.index, s1)
         /\ lastOp' = "control"
         /\ UNCHANGED <<output, freed, lastHandle, reserved, ended, srcVars, engVars>>

MixPause ==
  \E p \in BOOLEAN :
    /\ ctx' = ctx_pause(ctx, p)
    /\ lastOp' = "control"
    /\ UNCHANGED <<output, freed, lastHandle, reserved, ended, srcVars, engVars>>

\* bus_graph_mut().add_bus: the child bus under the primary bus.
MixAddBus ==
  /\ ctx' = [ctx EXCEPT !.bus_graph = add_bus(@, ChildBus, PrimaryBus, <<>>)]
  /\ lastOp' = "control"
  /\ UNCHANGED <<output, freed, lastHandle, reserved, ended, srcVars, engVars>>

\* One render pass, as the audio callback runs it.
MixRender ==
  \E checks \in BOOLEAN :
    LET r == engine_render(ctx, output, checks)
    IN /\ r.outcome = "ok"
       /\ ctx' = r.ctx
       /\ output' = r.output
       /\ lastOp' = "render"
       /\ UNCHANGED <<freed, lastHandle, reserved, ended, srcVars, engVars>>

MixNext ==
  \/ MixSourceOp
  \/ MixPause
  \/ MixAddBus
  \/ MixRender

MixSpec == MixInit /\ [][MixNext]_vars

\* The slots of the Playing sources whose bus is absent from the bus graph.
Misrouted(c) ==
  {i \in PoolOccupied(c.sources) :
     /\ SourceAt(c, i).status = "Playing"
     /\ SourceAt(c, i).bus \notin DOMAIN c.bus_graph.buses}

Routed(c) ==
  {i \in PoolOccupied(c.sources) :
     /\ SourceAt(c, i).status = "Playing"
     /\ SourceAt(c, i).bus \in DOMAIN c.bus_graph.buses}

\* The context c with the slots of its misrouted sources empty.
WithoutMisrouted(c) ==
  [c EXCEPT !.sources.records =
     [i \in DOMAIN @ |-> IF i \in Misrouted(c) THEN [@[i] EXCEPT !.payload = None] ELSE @[i]]]

\* C3: a render pass of a context with a Playing source whose bus is absent
\* from the bus graph completes without a panic, whatever the build; the
\* misrouted sources are left as they were and add nothing: the output and
\* the other sources are what the pass yields for the context without the
\* misrouted sources, and the output is all zeros when no Playing source is
\* routed to an existing bus.
C3_MisroutedIsSilent ==
  [][ (lastOp' = "render" /\ Misrouted(ctx) # {}) =>
        /\ \A checks \in BOOLEAN : engine_render(ctx, output, checks).outcome = "ok"
        /\ \A i \in Misrouted(ctx) : SourceAt(ctx', i) = SourceAt(ctx, i)
        /\ \E checks \in BOOLEAN :
             LET q == engine_render(WithoutMisrouted(ctx), output, checks)
             IN /\ output' = q.output
                /\ \A i \in PoolOccupied(ctx.sources) \ Misrouted(ctx) :
                     /\ i \in PoolOccupied(q.ctx.sources) <=> i \in PoolOccupied(ctx'.sources)
                     /\ i \in PoolOccupied(q.ctx.sources) => SourceAt(ctx', i) = SourceAt(q.ctx, i)
        /\ Routed(ctx) = {} => output' = SilentBlock(Len(output)) ]_vars

\* A pass has just mixed a routed source next to a misrouted Playing one.
C3_Witness ==
  /\ lastOp = "render"
  /\ Misrouted(ctx) # {}
  /\ output # SilentBlock(BlockLen)

\* ------------------------------------------------------------------ the life of a source in a context
\* Two sources in one context, each play-once or not, looping or not:
\* their playback control, the context's pause flag and the render pass.
LifeTemplates ==
  { [NewSource(MkBuffer(1, MaxFrames), FP) EXCEPT !.play_once = o, !.looping = l] :
      o \in BOOLEAN, l \in BOOLEAN }

LifeInit ==
  /\ \E s1 \in LifeTemplates, s2 \in LifeTemplates :
       ctx = add_source(add_source(NewContext, s1).ctx, s2).ctx
  /\ output = SilentBlock(BlockLen)
  /\ freed = None
  /\ lastHandle = None
  /\ ended = {}
  /\ reserved = None
  /\ EngineIdle
  /\ lastOp = "new"
  /\ src = NewSource(NoBuffer, FP)
  /\ call = Idle
  /\ lastFrom = "Stopped"
  /\ run = <<>>
  /\ runStart = 0
  /\ made = NoCall
  /\ heap = NoHeap

\* The handles that are valid in c and no longer valid in c1.
Removed(c, c1) == {h \in PoolHandles(c.sources) : ~ is_valid_handle(c1, h)}

\* The slots of c1 whose source has been stopped by a render at the end of
\* its buffer: those of e, and those Playing in c and Stopped in c1.
Ended(c, c1, e) ==
  {i \in PoolOccupied(c1.sources) :
     \/ i \in e
     \/ SourceAt(c, i).status = "Playing" /\ SourceAt(c1, i).status = "Stopped"}

\* One render pass, as the audio callback runs it.
LifeRender ==
  \E checks \in BOOLEAN :
    LET r == engine_render(ctx, output, checks)
    IN /\ r.outcome = "ok"
       /\ ctx' = r.ctx
       /\ output' = r.output
       /\ lastOp' = "render"
       /\ freed' = IF Removed(ctx, r.ctx) = {} THEN None
                   ELSE Some(CHOOSE h \in Removed(ctx, r.ctx) :
                               \A g \in Removed(ctx, r.ctx) : h.index <= g.index)
       /\ ended' = Ended(ctx, r.ctx, ended)
       /\ UNCHANGED <<lastHandle, reserved, srcVars, engVars>>

LifeNext ==
  \/ MixSourceOp
  \/ MixPause
  \/ LifeRender

LifeSpec == LifeInit /\ [][LifeNext]_vars

\* C13: a render pass of a context that is not paused removes from the pool
\* exactly the sources that are play-once and Stopped when the pass starts:
\* their handles are invalid and their slots are not iterated afterwards;
\* every other source keeps a valid handle, and the removal leaves its value
\* as it was.
C13_RetainRemovesDone ==
  [][ (lastOp' = "render" /\ ~ ctx.paused) =>
        \A h \in PoolHandles(ctx.sources) :
          IF SourceAt(ctx, h.index).play_once /\ SourceAt(ctx, h.index).status = "Stopped"
            THEN /\ ~ is_valid_handle(ctx', h)
                 /\ h.index \notin PoolOccupied(ctx'.sources)
            ELSE /\ is_valid_handle(ctx', h)
                 /\ is_valid_handle(RetainSources(ctx), h)
                 /\ SourceAt(RetainSources(ctx), h.index) = SourceAt(ctx, h.index) ]_vars

\* The last pass removed one source and kept the other.
C13_Witness ==
  /\ lastOp = "render"
  /\ freed # None
  /\ PoolOccupied(ctx.sources) # {}

\* C14: a render pass removes a source only after a render has stopped it
\* at the end of its buffer; a play-once source that was never played to the
\* end stays in the pool.
C14_RemovedOnlyAfterNaturalStop ==
  [][ lastOp' = "render" =>
        \A i \in PoolOccupied(ctx.sources) \ PoolOccupied(ctx'.sources) : i \in ended ]_vars

Resting(c) ==
  {i \in PoolOccupied(c.sources) :
     SourceAt(c, i).status # "Playing" /\ ~ Done(SourceAt(c, i))}
\* The context c with the slots in S empty.
WithoutSlots(c, S) ==
  [c EXCEPT !.sources.records =
     [i \in DOMAIN @ |-> IF i \in S THEN [@[i] EXCEPT !.payload = None] ELSE @[i]]]

\* C33: a render pass leaves every source that is Paused or Stopped, and
\* not removed as play-once, as it was: position, status, last gains; such
\* a source adds nothing to a bus, the output being that of the pass
\* without it; and neither pause() nor the play() that follows it moves the
\* position, so that emission resumes at the frame after the last one
\* emitted before the pause.
C33_RestingSourcesUntouched ==
  [][ /\ lastOp' = "render" =>
           /\ \A i \in Resting(ctx) :
                /\ i \in PoolOccupied(ctx'.sources)
                /\ SourceAt(ctx', i) = SourceAt(ctx, i)
           /\ \E checks \in BOOLEAN :
                output' = engine_render(WithoutSlots(ctx, Resting(ctx)), output, checks).output
      /\ lastOp' = "control" =>
           \A i \in PoolOccupied(ctx.sources) \cap PoolOccupied(ctx'.sources) :
             ( \/ SourceAt(ctx', i).status = "Paused"
               \/ SourceAt(ctx, i).status = "Paused" /\ SourceAt(ctx', i).status = "Playing" ) =>
               /\ SourceAt(ctx', i).buf_read_pos = SourceAt(ctx, i).buf_read_pos
               /\ SourceAt(ctx', i).playback_pos = SourceAt(ctx, i).playback_pos ]_vars

\* A pass went by a source paused in the middle of its buffer while the
\* other source was audible.
C33_Witness ==
  /\ lastOp = "render"
  /\ ~ ctx.paused
  /\ output # SilentBlock(BlockLen)
  /\ \E i \in PoolOccupied(ctx.sources) :
       /\ SourceAt(ctx, i).status = "Paused"
       /\ SourceAt(ctx, i).buf_read_pos > 0

\* ------------------------------------------------------------------ one source played in a context
\* One source in a context that is never paused: play and stop, set_pitch,
\* set_gain and the render pass.  A pass that panics or never returns is the
\* last step: the callback is gone and the context's mutex is poisoned.
GainArgs == {0, 1, 2}
PlayTemplates ==
  { [NewSource(MkBuffer(1, n), FP) EXCEPT !.looping = l, !.play_once = o] :
      n \in {1, MaxFrames}, l \in BOOLEAN, o \in BOOLEAN }
PlayHandle == Handle(1, 1)

PlayInit ==
  /\ \E s \in PlayTemplates : ctx = add_source(NewContext, s).ctx
  /\ output = SilentBlock(BlockLen)
  /\ freed = None
  /\ lastHandle = Some(PlayHandle)
  /\ ended = {}
  /\ reserved = None
  /\ EngineIdle
  /\ lastOp = "new"
  /\ src = NewSource(NoBuffer, FP)
  /\ call = Idle
  /\ lastFrom = "Stopped"
  /\ run = <<>>
  /\ runStart = 0
  /\ made = NoCall
  /\ heap = NoHeap

Alive == lastOp \in {"new", "control", "render"}

\* source_mut(h) panics on an invalid handle: the operations are applied
\* while the handle is valid.
PlayControl ==
  /\ Alive
  /\ is_valid_handle(ctx, PlayHandle)
  /\ \E op \in {"play", "stop"} :
       ctx' = PutSource(ctx, 1, IF op = "play" THEN play(SourceAt(ctx, 1))
                                ELSE stop(SourceAt(ctx, 1)))
  /\ lastOp' = "control"
  /\ UNCHANGED <<output, freed, lastHandle, reserved, ended, srcVars, engVars>>

PlaySetPitch ==
  /\ Alive
  /\ is_valid_handle(ctx, PlayHandle)
  /\ \E p \in PitchArgs : ctx' = PutSource(ctx, 1, set_pitch(SourceAt(ctx, 1), p))
  /\ lastOp' = "control"
  /\ UNCHANGED <<output, freed, lastHandle, reserved, ended, srcVars, engVars>>

PlaySetGain ==
  /\ Alive
  /\ is_valid_handle(ctx, PlayHandle)
  /\ \E g \in GainArgs : ctx' = PutSource(ctx, 1, set_gain(SourceAt(ctx, 1), g))
  /\ lastOp' = "control"
  /\ UNCHANGED <<output, freed, lastHandle, reserved, ended, srcVars, engVars>>

\* One render pass, as the audio callback runs it; the output block is left
\* as it was when the pass does not return.  call.iter is the parity of the
\* passes made so far.
PlayRender ==
  /\ Alive
  /\ \E checks \in BOOLEAN :
       LET r == engine_render(ctx, output, checks)
       IN /\ ctx' = r.ctx
          /\ output' = IF r.outcome = "ok" THEN r.output ELSE output
          /\ lastOp' = IF r.outcome = "ok" THEN "render" ELSE r.outcome
          /\ ended' = Ended(ctx, r.ctx, ended)
  /\ call' = [call EXCEPT !.iter = 1 - @]
  /\ UNCHANGED <<freed, lastHandle, reserved, src, lastFrom, run, runStart, made, heap, engVars>>

PlayNext ==
  \/ PlayControl
  \/ PlaySetPitch
  \/ PlaySetGain
  \/ PlayRender

PlaySpec == PlayInit /\ [][PlayNext]_vars
\* The audio device keeps calling the callback: while the callback is
\* alive another pass is made.  The passes are the steps that change call.
PlayPass == Alive /\ call' = [call EXCEPT !.iter = 1 - @]
FairPlaySpec == PlaySpec /\ WF_call(PlayPass)

\* The source is in the pool, Playing, and routed to an existing bus.
Audible(c) == 1 \in Routed(c)

\* C15: in a context that is not paused, a Playing, non-looping source with
\* a non-empty buffer and an existing bus, at any pitch set_pitch accepts,
\* is Stopped (or removed) after finitely many render passes unless a
\* control operation intervenes; and the pass that starts with a stopped
\* play-once source leaves its handle invalid.
C15_PlayingReachesStopped ==
  /\ ( /\ lastOp = "render"
       /\ ~ ctx.paused
       /\ Audible(ctx)
       /\ ~ SourceAt(ctx, 1).looping
       /\ BufferLen(SourceAt(ctx, 1).buffer) > 0 )
       ~> ( \/ lastOp = "control"
            \/ ~ is_valid_handle(ctx, PlayHandle)
            \/ SourceAt(ctx, 1).status = "Stopped" )
  /\ [][ ( /\ lastOp' = "render"
           /\ is_valid_handle(ctx, PlayHandle)
           /\ SourceAt(ctx, 1).play_once
           /\ SourceAt(ctx, 1).status = "Stopped" )
           => ~ is_valid_handle(ctx', PlayHandle) ]_vars

\* C17: the first mix of a source, with no last gains yet, mixes every
\* frame of the block with the current gains, without a ramp; after any mix
\* both last gains are present and are the gains just used; and a last gain
\* that is present is never absent again.
C17_FirstMixHasNoRamp ==
  [][ /\ (lastOp' = "render" /\ Audible(ctx)) =>
           /\ (SourceAt(ctx, 1).last_left_gain = None /\ SourceAt(ctx, 1).last_right_gain = None) =>
                \A k \in 1..BlockLen :
                  output'[k] = << LeftGain(SourceAt(ctx, 1)) * BlockLen
                                    * SourceAt(ctx', 1).frame_samples[k][1],
                                  RightGain(SourceAt(ctx, 1)) * BlockLen
                                    * SourceAt(ctx', 1).frame_samples[k][2] >>
           /\ SourceAt(ctx', 1).last_left_gain = Some(LeftGain(SourceAt(ctx, 1)))
           /\ SourceAt(ctx', 1).last_right_gain = Some(RightGain(SourceAt(ctx, 1)))
      /\ (is_valid_handle(ctx, PlayHandle) /\ is_valid_handle(ctx', PlayHandle)) =>
           /\ SourceAt(ctx, 1).last_left_gain # None => SourceAt(ctx', 1).last_left_gain # None
           /\ SourceAt(ctx, 1).last_right_gain # None => SourceAt(ctx', 1).last_right_gain # None
    ]_vars

\* A pass has mixed the source audibly with a constant gain of 2 and
\* recorded it.
C17_Witness ==
  /\ lastOp = "render"
  /\ Audible(ctx)
  /\ SourceAt(ctx, 1).last_left_gain = Some(2)
  /\ SourceAt(ctx, 1).last_right_gain = Some(2)
  /\ \A k \in 1..BlockLen :
       /\ output[k] # Silence
       /\ output[k][1] = 2 * BlockLen * SourceAt(ctx, 1).frame_samples[k][1]

\* The ramp of channel c in a pass that began with the last gain old and
\* the current gain new, both times the block length: raw is the block the
\* source rendered, out the output of the pass.
RampHolds(c, old, new) ==
  LET raw == [k \in 1..BlockLen |-> SourceAt(ctx', 1).frame_samples[k][c]]
      out == [k \in 1..BlockLen |-> output'[k][c]]
      K == {k \in 1..BlockLen : raw[k] # 0}
      g == [k \in K |-> out[k] \div raw[k]]
  IN /\ \A k \in K :
          /\ out[k] = g[k] * raw[k]
          /\ Min(old, new) <= g[k]
          /\ g[k] <= old + new - Min(old, new)
     /\ \A k \in K, l \in K :
          k < l => IF old <= new THEN g[k] <= g[l] ELSE g[k] >= g[l]
     /\ (old = BlockLen /\ new = 0 /\ raw[1] # 0 /\ \A k \in 1..BlockLen : raw[k] = raw[1]) =>
          /\ out[1] # 0
          /\ \A k \in 1..(BlockLen - 1) : Abs(out[k + 1]) <= Abs(out[k])

\* C18: in the block mixed after a gain change from g_old to g_new the gain
\* applied to frame k is monotone in k and lies between g_old and g_new; for
\* a change from 1 to 0 over a constant non-zero input the output magnitudes
\* do not increase and the first frame is not zero.
C18_GainRampIsMonotone ==
  [][ ( /\ lastOp' = "render"
        /\ Audible(ctx)
        /\ SourceAt(ctx, 1).last_left_gain # None
        /\ SourceAt(ctx, 1).last_right_gain # None ) =>
        /\ RampHolds(1, SourceAt(ctx, 1).last_left_gain[1] * BlockLen,
                     LeftGain(SourceAt(ctx, 1)) * BlockLen)
        /\ RampHolds(2, SourceAt(ctx, 1).last_right_gain[1] * BlockLen,
                     RightGain(SourceAt(ctx, 1)) * BlockLen) ]_vars

\* A pass has ramped the gain from 1 to 0 over a constant input: the first
\* frame of the output is audible, the last gain is 0.
C18_Witness ==
  /\ lastOp = "render"
  /\ Audible(ctx)
  /\ SourceAt(ctx, 1).last_left_gain = Some(0)
  /\ SourceAt(ctx, 1).frame_samples[1] # Silence
  /\ \A k \in 1..BlockLen : SourceAt(ctx, 1).frame_samples[k] = SourceAt(ctx, 1).frame_samples[1]
  /\ output[1][1] = BlockLen * SourceAt(ctx, 1).frame_samples[1][1]

\* A pass that ramps the gain of the source: it is mixed, it has last gains
\* and one of them is not the current gain.
Ramped(c) ==
  /\ Audible(c)
  /\ SourceAt(c, 1).last_left_gain # None
  /\ SourceAt(c, 1).last_right_gain # None
  /\ \/ SourceAt(c, 1).last_left_gain[1] # LeftGain(SourceAt(c, 1))
     \/ SourceAt(c, 1).last_right_gain[1] # RightGain(SourceAt(c, 1))

\* The output of frame k on the left channel is the gain g, times the block
\* length, times the frame the source rendered.
LeftGainAt(k, g) == output'[k][1] = g * SourceAt(ctx', 1).frame_samples[k][1]
RightGainAt(k, g) == output'[k][2] = g * SourceAt(ctx', 1).frame_samples[k][2]

\* C29 as the source has it: in a ramped block of N frames the gain of frame
\* k (from 0) is last + (target - last) * k / N: t_0 = 0 and
\* t_(N-1) = (N-1)/N, one step short of the target; after the block the last
\* gains are the target.
C29_RampEndsOneStepShort ==
  [][ (lastOp' = "render" /\ Ramped(ctx)) =>
        LET s == SourceAt(ctx, 1)
        IN /\ \A k \in 1..BlockLen :
                /\ LeftGainAt(k, s.last_left_gain[1] * (BlockLen - (k - 1))
                                   + LeftGain(s) * (k - 1))
                /\ RightGainAt(k, s.last_right_gain[1] * (BlockLen - (k - 1))
                                    + RightGain(s) * (k - 1))
           /\ SourceAt(ctx', 1).last_left_gain = Some(LeftGain(s))
           /\ SourceAt(ctx', 1).last_right_gain = Some(RightGain(s)) ]_vars

\* C29: in a ramped block of N frames the gain sweeps from the previous gain
\* at the first frame to the target at the last frame, t_0 = 0 and
\* t_(N-1) = 1, and after the block the last gains are the target.
C29_RampReachesTargetAtLastFrame ==
  [][ (lastOp' = "render" /\ Ramped(ctx)) =>
        LET s == SourceAt(ctx, 1)
        IN /\ LeftGainAt(1, s.last_left_gain[1] * BlockLen)
           /\ RightGainAt(1, s.last_right_gain[1] * BlockLen)
           /\ LeftGainAt(BlockLen, LeftGain(s) * BlockLen)
           /\ RightGainAt(BlockLen, RightGain(s) * BlockLen)
           /\ SourceAt(ctx', 1).last_left_gain = Some(LeftGain(s))
           /\ SourceAt(ctx', 1).last_right_gain = Some(RightGain(s)) ]_vars

\* A pass has ramped the gain: the last frame of the block is audible and
\* its gain is not the target, which the last gains now are.
C29_Witness ==
  /\ lastOp = "render"
  /\ is_valid_handle(ctx, PlayHandle)
  /\ SourceAt(ctx, 1).last_left_gain = Some(LeftGain(SourceAt(ctx, 1)))
  /\ SourceAt(ctx, 1).frame_samples[BlockLen][1] # 0
  /\ output[BlockLen][1] # LeftGain(SourceAt(ctx, 1)) * BlockLen
                             * SourceAt(ctx, 1).frame_samples[BlockLen][1]

\* ------------------------------------------------------------------ the engine and its threads
\* The audio callback and the control threads share the engine (one Mutex)
\* and the context (one Mutex).  A guard is held from the step that acquires
\* it to the step that drops it; every step is one thread's.
ContextOps == {"play", "stop", "pause", "remove_source"}
EngineOps == {"add_context", "remove_context"}
Ops(m) == IF m = ContextLock THEN ContextOps ELSE EngineOps

Held(t) == {thread[t].held[k] : k \in 1..Len(thread[t].held)}

\* source_mut(handle) panics when the handle is not valid.
Panics(op, c) == op \in {"play", "stop"} /\ ~ is_valid_handle(c, EngineHandle)

\* One mutation through the guard of the context.
Apply(op, c) ==
  CASE op = "play" /\ ~ Panics(op, c) -> PutSource(c, EngineHandle.index, play(SourceAt(c, EngineHandle.index)))
    [] op = "stop" /\ ~ Panics(op, c) -> PutSource(c, EngineHandle.index, stop(SourceAt(c, EngineHandle.index)))
    [] op = "pause" -> ctx_pause(c, TRUE)
    [] op = "remove_source" -> remove_source(c, EngineHandle)
    [] OTHER -> c

\* add_context pushes the context, remove_context removes its first position.
add_context(n) == n + 1
remove_context(n) == IF n > 0 THEN n - 1 ELSE n

\* A lock() that returns to a thread although another guard is alive.
LockWithoutExclusion(m) == TRUE
\* Mutex::lock returns once no other guard of the mutex is alive.
CanAcquire(m) == mutex[m].holder = None

\* The guards of the callback after the statement "context.state().render(buf)"
\* of a callback that keeps the guard until the pass ends.
KeepGuard(held) == held
\* The temporary guard is dropped at the end of the statement.
AfterRender(held) == Tail(held)

\* The mutexes after thread t dropped every guard not in keep.
Dropped(t, keep) ==
  [m \in Locks |-> IF mutex[m].holder = Some(t) /\ m \notin keep
                     THEN [mutex[m] EXCEPT !.holder = None]
                     ELSE mutex[m]]

\* A panic of thread t: unwinding drops its guards, which poisons their
\* mutexes, and the thread is gone.
Unwind(t) ==
  /\ mutex' = [m \in Locks |-> IF mutex[m].holder = Some(t)
                                 THEN [holder |-> None, poisoned |-> TRUE]
                                 ELSE mutex[m]]
  /\ thread' = [thread EXCEPT ![t] = [NewThread EXCEPT !.pc = "panicked"]]

\* The add_context calls that are requested or acquired and not yet done.
PendingAdds ==
  Cardinality({t \in ControlThreads :
     \/ thread[t].want = Some([lock |-> EngineLock, op |-> "add_context"])
     \/ \E k \in 1..Len(thread[t].todo) : thread[t].todo[k] = "add_context"})

EngineInit ==
  /\ ctx = add_source(NewContext, EngineSource).ctx
  /\ output = SilentBlock(BlockLen)
  /\ freed = None
  /\ lastHandle = Some(EngineHandle)
  /\ ended = {}
  /\ reserved = None
  /\ EngineIdle
  /\ lastOp = "new"
  /\ src = NewSource(NoBuffer, FP)
  /\ call = Idle
  /\ lastFrom = "Stopped"
  /\ run = <<>>
  /\ runStart = 0
  /\ made = NoCall
  /\ heap = NoHeap

\* lock() has returned to the control thread t, which asked for the mutex
\* w.lock to do w.op: unwrap() panics when the mutex is poisoned.
CtlLocked(t, w) ==
  IF mutex[w.lock].poisoned
    THEN Unwind(t) /\ UNCHANGED lin
    ELSE /\ mutex' = [mutex EXCEPT ![w.lock].holder = Some(t)]
         /\ thread' = [thread EXCEPT ![t].pc = "idle",
                                     ![t].held = <<w.lock>> \o @,
                                     ![t].todo = <<w.op>> \o @,
                                     ![t].want = None]
         /\ lin' = IF w.lock = ContextLock
                     THEN [lin EXCEPT !.ctx = Apply(w.op, @)]
                     ELSE lin

\* A control thread calls state() of the engine or of the context for the
\* operation op; it never asks for a mutex it holds a guard of.  The call
\* returns at once when no other guard is alive, else the thread waits.
CtlRequest(t) ==
  \E m \in Locks \ Held(t) :
    \E op \in Ops(m) :
      /\ thread[t].pc = "idle"
      /\ op = "add_context" => contexts + PendingAdds < MaxContexts
      /\ IF CanAcquire(m)
           THEN CtlLocked(t, [lock |-> m, op |-> op])
           ELSE /\ thread' = [thread EXCEPT ![t].pc = "wait",
                                            ![t].want = Some([lock |-> m, op |-> op])]
                /\ UNCHANGED <<mutex, lin>>
      /\ inverted' = (inverted \/ ContextLock \in Held(t))
      /\ UNCHANGED <<contexts, lastOp, srcVars, ctxVars>>

\* The guard the thread waited for was dropped: lock() returns.
CtlAcquire(t) ==
  /\ thread[t].pc = "wait"
  /\ CanAcquire(thread[t].want[1].lock)
  /\ CtlLocked(t, thread[t].want[1])
  /\ UNCHANGED <<contexts, inverted, lastOp, srcVars, ctxVars>>

\* The operation itself, through the guard acquired last.
CtlAct(t) ==
  /\ thread[t].pc = "idle"
  /\ thread[t].held # <<>>
  /\ LET op == Head(thread[t].todo)
         done == [thread EXCEPT ![t].todo = <<"none">> \o Tail(@)]
     IN /\ op # "none"
        /\ IF Head(thread[t].held) = ContextLock
             THEN IF Panics(op, ctx)
                    THEN Unwind(t) /\ UNCHANGED <<ctx, contexts>>
                    ELSE /\ ctx' = Apply(op, ctx)
                         /\ thread' = done
                         /\ UNCHANGED <<mutex, contexts>>
             ELSE /\ contexts' = IF op = "add_context" THEN add_context(contexts)
                                                       ELSE remove_context(contexts)
                  /\ thread' = done
                  /\ UNCHANGED <<mutex, ctx>>
  /\ lastOp' = "control"
  /\ UNCHANGED <<output, freed, lastHandle, reserved, lin, inverted, ended, srcVars>>

\* The guard acquired last goes out of scope.
CtlRelease(t) ==
  /\ thread[t].pc = "idle"
  /\ thread[t].held # <<>>
  /\ Head(thread[t].todo) = "none"
  /\ mutex' = Dropped(t, Held(t) \ {Head(thread[t].held)})
  /\ thread' = [thread EXCEPT ![t].held = Tail(@), ![t].todo = Tail(@)]
  /\ UNCHANGED <<contexts, lin, inverted, lastOp, srcVars, ctxVars>>

\* lock() has returned to the callback, which asked for the mutex m:
\* unwrap() panics when the mutex is poisoned.  With the engine's guard the
\* block is zeroed (buf.fill) and the loop over the contexts begins.
CbLocked(m) ==
  IF mutex[m].poisoned
    THEN Unwind(Callback) /\ UNCHANGED <<output, lin>>
  ELSE IF m = EngineLock
    THEN /\ mutex' = [mutex EXCEPT ![m].holder = Some(Callback)]
         /\ thread' = [thread EXCEPT ![Callback].pc = "pass",
                                     ![Callback].held = <<m>> \o @,
                                     ![Callback].want = None,
                                     ![Callback].i = 1]
         /\ output' = SilentBlock(Len(output))
         /\ lin' = [lin EXCEPT !.output = SilentBlock(Len(output))]
  ELSE /\ mutex' = [mutex EXCEPT ![m].holder = Some(Callback)]
       /\ thread' = [thread EXCEPT ![Callback].pc = "render",
                                   ![Callback].held = <<m>> \o @,
                                   ![Callback].want = None]
       /\ \E checks \in BOOLEAN :
            LET r == ctx_render(lin.ctx, output, checks)
            IN r.outcome = "ok" /\ lin' = [ctx |-> r.ctx, output |-> r.output]
       /\ UNCHANGED output

\* The callback calls state() of m; it waits when another guard is alive.
CbLock(m) ==
  IF CanAcquire(m)
    THEN CbLocked(m)
    ELSE /\ thread' = [thread EXCEPT ![Callback].pc = "wait",
                                     ![Callback].want = Some([lock |-> m, op |-> "render"])]
         /\ UNCHANGED <<mutex, output, lin>>

\* The device asks for a block: the callback calls state() of the engine.
CbStart ==
  /\ thread[Callback].pc = "idle"
  /\ CbLock(EngineLock)
  /\ UNCHANGED <<ctx, freed, lastHandle, reserved, contexts, inverted, lastOp, ended, srcVars>>

\* render_inner reaches the next registered context and calls its state().
CbRequestContext ==
  /\ thread[Callback].pc = "pass"
  /\ thread[Callback].i <= contexts
  /\ CbLock(ContextLock)
  /\ UNCHANGED <<ctx, freed, lastHandle, reserved, contexts, inverted, lastOp, ended, srcVars>>

\* The guard the callback waited for was dropped: lock() returns.
CbAcquire ==
  /\ thread[Callback].pc = "wait"
  /\ CanAcquire(thread[Callback].want[1].lock)
  /\ CbLocked(thread[Callback].want[1].lock)
  /\ UNCHANGED <<ctx, freed, lastHandle, reserved, contexts, inverted, lastOp, ended, srcVars>>

\* The context renders into the block, and the statement ends.
CbRender ==
  /\ thread[Callback].pc = "render"
  /\ \E checks \in BOOLEAN :
       LET r == ctx_render(ctx, output, checks)
       IN /\ r.outcome = "ok"
          /\ ctx' = r.ctx
          /\ output' = r.output
  /\ mutex' = Dropped(Callback, {m \in Locks : \E k \in 1..Len(AfterRender(thread[Callback].held)) :
                                                  AfterRender(thread[Callback].held)[k] = m})
  /\ thread' = [thread EXCEPT ![Callback].pc = "pass",
                              ![Callback].held = AfterRender(@),
                              ![Callback].i = @ + 1]
  /\ lastOp' = "render"
  /\ UNCHANGED <<freed, lastHandle, reserved, contexts, lin, inverted, ended, srcVars>>

\* The loop over the contexts is over: the callback returns.
CbEndPass ==
  /\ thread[Callback].pc = "pass"
  /\ thread[Callback].i > contexts
  /\ mutex' = Dropped(Callback, {})
  /\ thread' = [thread EXCEPT ![Callback] = NewThread]
  /\ UNCHANGED <<contexts, lin, inverted, lastOp, srcVars, ctxVars>>

EngineNext ==
  \/ \E t \in ControlThreads : CtlRequest(t)
  \/ \E t \in ControlThreads : CtlAcquire(t)
  \/ \E t \in ControlThreads : CtlAct(t)
  \/ \E t \in ControlThreads : CtlRelease(t)
  \/ CbStart
  \/ CbAcquire
  \/ CbRequestContext
  \/ CbRender
  \/ CbEndPass

EngineSpec == EngineInit /\ [][EngineNext]_vars

NoPoison == \A m \in Locks : ~ mutex[m].poisoned

\* C4: control mutations and render passes are linearized by the
\* acquisition of the context's lock.  While no thread has panicked:
\* whenever no guard of the context is alive, the context is what the
\* mutations and passes yield when applied one after the other in the order
\* in which their guards were acquired; the pass the callback is about to
\* run under its guard yields that same context and output, so no mutation
\* took effect since the guard was acquired and every mutation whose guard
\* came earlier is reflected; and outside a pass the output block is the
\* one of the last pass in that order.
C4_LinearizedByLock ==
  NoPoison =>
    /\ mutex[ContextLock].holder = None => ctx = lin.ctx
    /\ thread[Callback].pc = "render" =>
         \A checks \in BOOLEAN :
           /\ ctx_render(ctx, output, checks).ctx = lin.ctx
           /\ ctx_render(ctx, output, checks).output = lin.output
    /\ thread[Callback].pc # "render" => output = lin.output

\* The callback has just rendered a pass that shows an earlier play: the
\* source, Stopped at first, was mixed into the block and ran to its end.
C4_Witness ==
  /\ NoPoison
  /\ lastOp = "render"
  /\ thread[Callback].pc = "pass"
  /\ output # SilentBlock(BlockLen)
  /\ mutex[ContextLock].holder = None

\* Thread t waits for a guard, and so does the holder of that guard, and so
\* on for k threads: with k above the number of threads, a cycle of waits.
RECURSIVE WaitsWithin(_, _)
WaitsWithin(t, k) ==
  \/ k = 0
  \/ /\ thread[t].pc = "wait"
     /\ mutex[thread[t].want[1].lock].holder # None
     /\ WaitsWithin(mutex[thread[t].want[1].lock].holder[1], k - 1)

BlockedForever(t) == WaitsWithin(t, MaxThreads + 2)

\* C5 as stated: no thread asks for a mutex it holds (CtlRequest), and the
\* callback is never blocked forever.
C5_CallbackNeverBlockedForever == ~ BlockedForever(Callback)

\* C5: the callback is never blocked forever provided no control thread
\* asks for a mutex it already holds and, in addition, no control thread
\* asks for a mutex while it holds a guard of the context.
C5_NoDeadlockInLockOrder == ~ inverted => ~ BlockedForever(Callback)

\* The callback waits for a guard that a control thread holds, and no
\* control thread has asked for a mutex under a guard of the context.
C5_Witness ==
  /\ ~ inverted
  /\ thread[Callback].pc = "wait"
  /\ thread[Callback].want[1].lock = ContextLock
  /\ \E t \in ControlThreads : mutex[ContextLock].holder = Some(t)

\* C6: the audio callback never panics, whatever panicked before it under
\* a guard of the engine or of the context.
C6_CallbackSurvivesPoison == thread[Callback].pc # "panicked"

\* ------------------------------------------------------------------ the contexts of the engine
\* One SoundContext (clones of it are equal: PartialEq is Arc::ptr_eq) and
\* the list of contexts of one engine, which holds it `contexts` times.
\* remove_all_contexts clears the list; has_context looks the context up.
remove_all_contexts(n) == 0
has_context(n) == n > 0

\* render_inner: every entry of the list renders into the buffer in turn.
RECURSIVE render_inner(_, _, _, _)
render_inner(c, buf, n, checks) ==
  IF n = 0 THEN [ctx |-> c, output |-> buf, outcome |-> "ok"]
  ELSE IF ctx_render(c, buf, checks).outcome # "ok" THEN ctx_render(c, buf, checks)
  ELSE render_inner(ctx_render(c, buf, checks).ctx, ctx_render(c, buf, checks).output,
                    n - 1, checks)

RegistryTemplates ==
  { [NewSource(MkBuffer(1, MaxFrames), FP) EXCEPT !.looping = l, !.status = "Playing"] :
      l \in BOOLEAN }
RegistryHandle == Handle(1, 1)

RegistryInit ==
  /\ \E s \in RegistryTemplates : ctx = add_source(NewContext, s).ctx
  /\ output = SilentBlock(BlockLen)
  /\ freed = None
  /\ lastHandle = Some(RegistryHandle)
  /\ ended = {}
  /\ reserved = None
  /\ EngineIdle
  /\ lastOp = "new"
  /\ src = NewSource(NoBuffer, FP)
  /\ call = Idle
  /\ lastFrom = "Stopped"
  /\ run = <<>>
  /\ runStart = 0
  /\ made = NoCall
  /\ heap = NoHeap

RegistryAdd ==
  /\ contexts < MaxContexts
  /\ contexts' = add_context(contexts)
  /\ lastOp' = "add_context"
  /\ UNCHANGED <<mutex, thread, lin, inverted, srcVars, ctxVars>>

RegistryRemove ==
  /\ contexts' = remove_context(contexts)
  /\ lastOp' = "remove_context"
  /\ UNCHANGED <<mutex, thread, lin, inverted, srcVars, ctxVars>>

RegistryRemoveAll ==
  /\ contexts' = remove_all_contexts(contexts)
  /\ lastOp' = "remove_all_contexts"
  /\ UNCHANGED <<mutex, thread, lin, inverted, srcVars, ctxVars>>

\* play(), pause() or stop() of the source, through the context.
RegistryControl ==
  /\ \E op \in {"play", "pause", "stop"} :
       ctx' = PutSource(ctx, 1, CASE op = "play" -> play(SourceAt(ctx, 1))
                                  [] op = "pause" -> pause(SourceAt(ctx, 1))
                                  [] OTHER -> stop(SourceAt(ctx, 1)))
  /\ lastOp' = "control"
  /\ UNCHANGED <<output, freed, lastHandle, reserved, ended, srcVars, engVars>>

\* SoundEngineState::render: the block is zeroed, then render_inner.
RegistryRender ==
  \E checks \in BOOLEAN :
    /\ render_inner(ctx, SilentBlock(Len(output)), contexts, checks).outcome = "ok"
    /\ ctx' = render_inner(ctx, SilentBlock(Len(output)), contexts, checks).ctx
    /\ output' = render_inner(ctx, SilentBlock(Len(output)), contexts, checks).output
    /\ lastOp' = "render"
    /\ UNCHANGED <<freed, lastHandle, reserved, ended, srcVars, engVars>>

RegistryNext ==
  \/ RegistryAdd
  \/ RegistryRemove
  \/ RegistryRemoveAll
  \/ RegistryControl
  \/ RegistryRender

RegistrySpec == RegistryInit /\ [][RegistryNext]_vars

\* C25: for any sequence of add_context, remove_context and
\* remove_all_contexts, the same context added more than once included:
\* after remove_context(c) has_context(c) is false and a later engine render
\* does not render c; and while c is registered an engine render advances
\* the sources of c by exactly one block.
C25_RemovedContextIsGone ==
  [][ /\ lastOp' = "remove_context" => ~ has_context(contexts')
      /\ lastOp' = "render" =>
           \E checks \in BOOLEAN :
             ctx' = IF has_context(contexts)
                      THEN ctx_render(ctx, SilentBlock(Len(output)), checks).ctx
                      ELSE ctx ]_vars

\* ------------------------------------------------------------------ a bus with an effect
\* One looping source at pitch 1 routed to a child bus of the primary bus
\* whose effect chain is one Attenuate; the gains are times FP, so that
\* FP \div 2 is the gain 0.5.
FxGains == {0, FP \div 2, FP}
FxTemplate ==
  [NewSource(MkBuffer(1, MaxFrames), FP) EXCEPT !.looping = TRUE, !.bus = ChildBus,
                                               !.status = "Playing"]

FxInit ==
  /\ \E g \in FxGains :
       ctx = [add_source(NewContext, FxTemplate).ctx EXCEPT
                !.bus_graph = add_bus(@, ChildBus, PrimaryBus, <<g>>)]
  /\ output = SilentBlock(BlockLen)
  /\ freed = None
  /\ lastHandle = Some(PlayHandle)
  /\ ended = {}
  /\ reserved = None
  /\ EngineIdle
  /\ lastOp = "new"
  /\ src = NewSource(NoBuffer, FP)
  /\ call = Idle
  /\ lastFrom = "Stopped"
  /\ run = <<>>
  /\ runStart = 0
  /\ made = NoCall
  /\ heap = NoHeap

FxNext ==
  \/ MixSourceOp
  \/ PlaySetGain
  \/ MixRender

FxSpec == FxInit /\ [][FxNext]_vars

\* The context with the effect chain of the child bus empty.
Dry(c) == [c EXCEPT !.bus_graph.buses[ChildBus].effects = <<>>]
FxGain(c) == Head(c.bus_graph.buses[ChildBus].effects)

\* C24: with one looping source at step 1 routed through a bus whose effect
\* chain is a single Attenuate of gain g (0.5 among them), every output
\* frame of every block is g times the frame the pass produces without the
\* effect, on both channels, and nothing the output held before is added.
C24_AttenuateScalesEveryFrame ==
  [][ lastOp' = "render" =>
        \E checks \in BOOLEAN :
          LET dry == engine_render(Dry(ctx), output, checks).output
          IN /\ Len(output') = Len(dry)
             /\ \A k \in 1..Len(dry) :
                  /\ output'[k][1] = (dry[k][1] * FxGain(ctx)) \div FP
                  /\ output'[k][2] = (dry[k][2] * FxGain(ctx)) \div FP ]_vars

\* A pass at gain 0.5 while the source plays: the output is not silent.
C24_Witness ==
  /\ lastOp = "render"
  /\ FxGain(ctx) = FP \div 2
  /\ SourceAt(ctx, 1).status = "Playing"
  /\ output # SilentBlock(BlockLen)

\* ------------------------------------------------------------------ the heap of a render
\* One source, its playback control and whole render calls, with the
\* capacity of frame_samples and the heap allocations of each call.
HeapTemplates ==
  { [NewSource(b, FP) EXCEPT !.looping = l] :
      b \in {NoBuffer, MkBuffer(1, MaxFrames), MkBuffer(2, 1)}, l \in BOOLEAN }

HeapInit ==
  /\ \E s \in HeapTemplates : src = s
  /\ call = Idle
  /\ lastOp = "new"
  /\ lastFrom = "Stopped"
  /\ run = <<>>
  /\ runStart = 0
  /\ made = NoCall
  /\ heap = NoHeap
  /\ ctx = NewContext
  /\ output = SilentBlock(BlockLen)
  /\ freed = None
  /\ lastHandle = None
  /\ ended = {}
  /\ reserved = None
  /\ EngineIdle

HeapControl ==
  /\ \E op \in {"play", "pause", "stop"} :
       src' = CASE op = "play" -> play(src)
                [] op = "pause" -> pause(src)
                [] OTHER -> stop(src)
  /\ lastOp' = "control"
  /\ UNCHANGED <<call, lastFrom, run, runStart, made, heap, ctxVars, engVars>>

\* The allocations of render(amount) on the source s whose frame_samples
\* has the capacity given; pushed is the length of frame_samples before the
\* resize.  Vec::with_capacity allocates when the capacity is too small;
\* self.buffer.clone() copies the samples of the buffer (Buffer derives
\* Clone, Samples is a Vec<f32>) and allocates unless there are none; a push
\* or a resize allocates when it passes the capacity.
Allocations(s, capacity, amount, pushed) ==
  (IF capacity < amount THEN 1 ELSE 0)
  + (IF s.buffer # NoBuffer /\ Len(s.buffer.samples) > 0 THEN 1 ELSE 0)
  + (IF pushed > Max(capacity, amount) THEN 1 ELSE 0)

\* Pushed(s, amount, checks): the frames pushed before the resize.
Pushed(s, amount, checks) ==
  IF EntersRenderPlaying(s)
    THEN Len(RenderPlayingLoop([s EXCEPT !.frame_samples = <<>>], amount, 0, checks).src.frame_samples)
    ELSE 0

\* A whole call of render(amount).
HeapRender ==
  \E amount \in 1..MaxAmount, checks \in BOOLEAN :
    /\ render(src, amount, checks).outcome = "ok"
    /\ src' = render(src, amount, checks).src
    /\ heap' = [capacity |-> Max(Max(heap.capacity, amount), Pushed(src, amount, checks)),
                allocations |-> Allocations(src, heap.capacity, amount,
                                            Pushed(src, amount, checks)),
                amount |-> amount,
                renders |-> Min(heap.renders + 1, 2)]
    /\ lastOp' = "render"
    /\ lastFrom' = src.status
    /\ UNCHANGED <<call, run, runStart, made, ctxVars, engVars>>

HeapNext ==
  \/ HeapControl
  \/ HeapRender

HeapSpec == HeapInit /\ [][HeapNext]_vars

\* C26: with a constant block length, a render after the first makes no
\* heap allocation: frame_samples is reused and the data of the buffer is
\* read in place.
C26_NoAllocationPerBlock ==
  [][ (lastOp' = "render" /\ heap.renders > 0 /\ heap'.amount = heap.amount) =>
        heap'.allocations = 0 ]_vars

\* ------------------------------------------------------------------ seeking in one source
\* One source whose buffer has a sample rate, with its public operations:
\* play, pause, stop, set_pitch, set_looping, set_playback_time and whole
\* render calls.  A panic ends the life of the source.
WithRate(b, r) == b @@ [sample_rate |-> r]
SampleRates == {0, 1, 2}
\* Whole half seconds, in ticks.
TimeArgs == {t \in 0..MaxTime : t % 2 = 0}

SeekTemplates ==
  { NewSource(WithRate(b, r), FP) :
      b \in {MkBuffer(1, 0), MkBuffer(1, 1), MkBuffer(1, MaxFrames), MkBuffer(2, 2)},
      r \in SampleRates }

SeekInit ==
  /\ \E s \in SeekTemplates : src = s
  /\ call = Idle
  /\ lastOp = "new"
  /\ lastFrom = "Stopped"
  /\ run = <<>>
  /\ runStart = 0
  /\ made = NoCall
  /\ heap = NoHeap
  /\ ctx = NewContext
  /\ output = SilentBlock(BlockLen)
  /\ freed = None
  /\ lastHandle = None
  /\ ended = {}
  /\ reserved = None
  /\ EngineIdle

SeekAlive == lastOp # "panic"

SeekControl ==
  /\ SeekAlive
  /\ \E op \in {"play", "pause", "stop"} :
       /\ src' = CASE op = "play" -> play(src)
                   [] op = "pause" -> pause(src)
                   [] OTHER -> stop(src)
       /\ lastOp' = op
  /\ UNCHANGED <<call, lastFrom, run, runStart, made, heap, ctxVars, engVars>>

SeekSetPitch ==
  /\ SeekAlive
  /\ \E p \in PitchArgs : src' = set_pitch(src, p)
  /\ lastOp' = "set_pitch"
  /\ UNCHANGED <<call, lastFrom, run, runStart, made, heap, ctxVars, engVars>>

SeekSetLooping ==
  /\ SeekAlive
  /\ \E l \in BOOLEAN : src' = set_looping(src, l)
  /\ lastOp' = "set_looping"
  /\ UNCHANGED <<call, lastFrom, run, runStart, made, heap, ctxVars, engVars>>

SeekSetTime ==
  /\ SeekAlive
  /\ \E time \in TimeArgs :
       /\ src' = set_playback_time(src, time).src
       /\ lastOp' = IF set_playback_time(src, time).outcome = "ok"
                      THEN "set_playback_time" ELSE "panic"
  /\ UNCHANGED <<call, lastFrom, run, runStart, made, heap, ctxVars, engVars>>

\* A whole call of render(amount); a call that does not return normally
\* (a panic, an endless loop) ends the life of the source.
SeekRender ==
  /\ SeekAlive
  /\ \E amount \in 1..MaxAmount, checks \in BOOLEAN :
       /\ src' = render(src, amount, checks).src
       /\ lastOp' = IF render(src, amount, checks).outcome = "ok" THEN "render" ELSE "panic"
  /\ lastFrom' = src.status
  /\ UNCHANGED <<call, run, runStart, made, heap, ctxVars, engVars>>

SeekNext ==
  \/ SeekControl
  \/ SeekSetPitch
  \/ SeekSetLooping
  \/ SeekSetTime
  \/ SeekRender

SeekSpec == SeekInit /\ [][SeekNext]_vars

C37_SetPlaybackTimeNeverPanics ==
  (SeekAlive /\ src.buffer.sample_rate > 0) =>
    \A time \in TimeArgs : set_playback_time(src, time).outcome = "ok"

\* C38: for every buffer and every time t that is a whole number of sample
\* periods and less than the duration of the buffer, set_playback_time(t)
\* followed by playback_time() returns t, and the next fast-path render
\* starts at the frame t * sample_rate.
C38_SeekRoundTrip ==
  (SeekAlive /\ src.buffer.sample_rate > 0) =>
    \A time \in TimeArgs :
      ( /\ (time * src.buffer.sample_rate) % TicksPerSecond = 0
        /\ FramesAt(time, src.buffer) < BufferLen(src.buffer) * FP ) =>
          /\ set_playback_time(src, time).outcome = "ok"
          /\ playback_time(set_playback_time(src, time).src) = time
          /\ Floor(set_playback_time(src, time).src.buf_read_pos) * TicksPerSecond
               = time * src.buffer.sample_rate

\* ------------------------------------------------------------------ a source without its bus
\* One source, looping or not, play-once or not, whose bus is not in the
\* graph until set_bus names the primary bus; play, pause and stop, the
\* pause flag of the context and the render pass.
RouteTemplates ==
  { [NewSource(MkBuffer(1, MaxFrames), FP) EXCEPT !.looping = l, !.play_once = o,
                                                  !.bus = ChildBus, !.status = "Playing"] :
      l \in BOOLEAN, o \in BOOLEAN }

RouteInit ==
  /\ \E s \in RouteTemplates : ctx = add_source(NewContext, s).ctx
  /\ output = SilentBlock(BlockLen)
  /\ freed = None
  /\ lastHandle = Some(PlayHandle)
  /\ ended = {}
  /\ reserved = None
  /\ EngineIdle
  /\ lastOp = "new"
  /\ src = NewSource(NoBuffer, FP)
  /\ call = Idle
  /\ lastFrom = "Stopped"
  /\ run = <<>>
  /\ runStart = 0
  /\ made = NoCall
  /\ heap = NoHeap

\* source_mut(h).set_bus(name), on a valid handle.
RouteSetBus ==
  /\ is_valid_handle(ctx, PlayHandle)
  /\ \E name \in BusNames : ctx' = PutSource(ctx, 1, set_bus(SourceAt(ctx, 1), name))
  /\ lastOp' = "control"
  /\ UNCHANGED <<output, freed, lastHandle, reserved, ended, srcVars, engVars>>

RouteNext ==
  \/ MixSourceOp
  \/ MixPause
  \/ RouteSetBus
  \/ LifeRender

RouteSpec == RouteInit /\ [][RouteNext]_vars

\* C34: a render pass does not advance a Playing source whose bus is absent
\* from the graph: buf_read_pos, playback_pos, status and last gains are
\* after the pass what they were before, so that such a source, also when
\* not looping and play-once, is not stopped and not removed by any pass;
\* once set_bus has named an existing bus a pass renders it.
C34_UnroutedSourceStandsStill ==
  [][ lastOp' = "render" =>
        /\ \A i \in Misrouted(ctx) :
             /\ is_valid_handle(ctx', Handle(i, ctx.sources.records[i].generation))
             /\ SourceAt(ctx', i).status = "Playing"
             /\ SourceAt(ctx', i).buf_read_pos = SourceAt(ctx, i).buf_read_pos
             /\ SourceAt(ctx', i).playback_pos = SourceAt(ctx, i).playback_pos
             /\ SourceAt(ctx', i).last_left_gain = SourceAt(ctx, i).last_left_gain
             /\ SourceAt(ctx', i).last_right_gain = SourceAt(ctx, i).last_right_gain
        /\ (~ ctx.paused /\ Routed(ctx) # {}) =>
             \A i \in Routed(ctx) :
               \E checks \in BOOLEAN :
                 /\ SourceAt(ctx', i).frame_samples
                      = render(SourceAt(ctx, i), Len(output), checks).src.frame_samples
                 /\ SourceAt(ctx', i).playback_pos
                      = render(SourceAt(ctx, i), Len(output), checks).src.playback_pos
                 /\ SourceAt(ctx', i).last_left_gain = Some(LeftGain(SourceAt(ctx, i))) ]_vars

\* Passes went by a source that is play-once, not looping and Playing on a
\* bus the graph does not have, after it had been played to the middle of
\* its buffer on the primary bus.
C34_Witness ==
  /\ lastOp = "render"
  /\ ~ ctx.paused
  /\ Misrouted(ctx) = {1}
  /\ SourceAt(ctx, 1).play_once
  /\ ~ SourceAt(ctx, 1).looping
  /\ SourceAt(ctx, 1).buf_read_pos > 0

\* Blocks the output buffer may hold when a pass starts.
DirtyBlocks == {[k \in 1..BlockLen |-> <<v, w>>] : v \in {0, 8}, w \in {0, 8}}

Swapped(c) ==
  [c EXCEPT !.sources.records = <<c.sources.records[2], c.sources.records[1]>>]

\* C36: mixing is additive: when several Playing sources are mixed in one
\* pass, each frame is the sum over the sources of the gain applied times
\* the frame of the source; the result is the same in either order of the
\* sources, and no source overwrites what another has mixed.
C36_MixIsAdditive ==
  [][ (lastOp' = "render" /\ ~ ctx.paused) =>
        \E checks \in BOOLEAN :
          /\ output' = AddFrames(engine_render(WithoutSlots(ctx, {2}), output, checks).output,
                                 engine_render(WithoutSlots(ctx, {1}), output, checks).output)
          /\ output' = engine_render(Swapped(ctx), output, checks).output ]_vars

\* Two sources at different positions were mixed into the same bus.
C36_Witness ==
  /\ lastOp = "render"
  /\ ~ ctx.paused
  /\ Routed(ctx) = {1, 2}
  /\ SourceAt(ctx, 1).bus = SourceAt(ctx, 2).bus
  /\ SourceAt(ctx, 1).frame_samples # SourceAt(ctx, 2).frame_samples
  /\ SourceAt(ctx, 1).frame_samples[1] # Silence
  /\ SourceAt(ctx, 2).frame_samples[1] # Silence

====
